---- MODULE Spec2Model ----
(***************************************************************************)
(* Model of the DNS proxy: the TTL cache (DNSCacheService over a           *)
(* cachetools.TTLCache), the upstream DoH client with its circuit breaker  *)
(* (UpstreamDoHService / UpstreamService) and the resolver                 *)
(* (DNSProxyService.resolve) with its rate limiter and statistics.         *)
(*                                                                         *)
(* Time is a single clock `now`, counted in ticks of 1/TicksPerSecond s.   *)
(* All clock reads made inside one critical section are taken to return    *)
(* the same instant.                                                       *)
(***************************************************************************)
EXTENDS Integers, Sequences, FiniteSets, TLC

VARIABLES
    now,            \* the clock (datetime.utcnow / time.monotonic), in ticks
    cache,          \* DNSCacheService._cache: the items physically held by the TTLCache
    lru,            \* TTLCache.__links: keys, least recently used first
    links,          \* TTLCache expiry list: keys in order of their last __setitem__
    cache_stats,    \* DNSCacheService._stats
    cache_ret,      \* the last DNSCacheService call: [op, key (of a get), ret]
    upstream_service,   \* UpstreamService: the circuit-breaker fields
    upstream_stats,     \* UpstreamDoHService._stats
    http_calls,         \* number of urllib.request.urlopen calls started
    task,               \* per request thread: position and locals
    rate_limiter,       \* DNSProxyService._rate_limiter: client -> [window, count]
    proxy_stats,        \* DNSProxyService._stats
    event,              \* the last step that touched the circuit breaker, and what it found
    server,             \* DNSServer: per handler thread, its datagram and the replies it sent
    lifecycle,          \* DNSServer: "running", "stopping" (socket closed), "down"
    callers,            \* per thread calling DNSCacheService: whether it holds self._lock,
                        \* the _stats it read, what it adds, the events it has produced
    held                \* per thread: the service locks (RLock) it holds, in the order
                        \* it acquired them

cacheVars == <<cache, lru, links, cache_stats, cache_ret>>
upstreamVars == <<upstream_service, upstream_stats, http_calls, event>>
proxyVars == <<rate_limiter, proxy_stats>>
serverVars == <<server, lifecycle>>

----------------------------------------------------------------------------
(* Bounds and program constants *)

TicksPerSecond == 2
MaxSize == 2            \* DNSCacheService.max_size
Slack == TicksPerSecond \* ticks the clock runs on after time 0 and after a jump
MaxOps == MaxSize + 1   \* cap on the counted cache operations: enough to evict
DefaultTtl == 300       \* DNSCacheService.__init__ default_ttl
FailureThreshold == 2       \* UpstreamService.failure_threshold (configuration)
CircuitBreakerTimeout == 1  \* UpstreamService.circuit_breaker_timeout, seconds (configuration)
RetryAttempts == 1          \* UpstreamService.retry_attempts (configuration)
MaxBackoff == 10            \* cap of the retry backoff, seconds
Tasks == {1, 2}             \* request threads
MaxQueries == FailureThreshold + 1  \* cap on calls of UpstreamDoHService.query
RateLimitRequestsPerMinute == 2     \* config.rate_limit_requests_per_minute
WindowSeconds == 60                 \* the rate limiter's window: one wall-clock minute
MaxResolves == RateLimitRequestsPerMinute + 1   \* cap on admitted resolve calls
MaxFailing == Cardinality(Tasks)                \* cap on failed resolve calls

Secs(s) == s * TicksPerSecond
\* The clock advances by one tick, or jumps by default_ttl seconds (once);
\* after either it may run Slack ticks further.
Jump == Secs(DefaultTtl)

\* (name, type) arguments of get and delete, and of the responses given to set
QueryArgs == {<<"a.com", "A">>, <<"A.com", "a">>, <<"b.com", "A">>, <<"c.com", "A">>, <<"", "A">>}
SetArgs == {<<"A.com", "A">>, <<"b.com", "A">>, <<"c.com", "A">>, <<"c.com", "a">>}
SUPPORTED_TYPES == {"A", "AAAA", "CNAME", "MX", "TXT", "PTR", "NS", "SOA"}
SetAnswers == {<<"ip1">>}
SetTtls == {0, 1, DefaultTtl + 1}

\* what a call returned: None, a DNSResponse, a bool, a count, or a raised error
RetNone == [kind |-> "None"]
RetResponse(r) == [kind |-> "response", response |-> r]
RetBool(b) == [kind |-> "bool", value |-> b]
RetInt(n) == [kind |-> "int", value |-> n]
Raised(e) == [kind |-> "raise", error |-> e]

Max(a, b) == IF a >= b THEN a ELSE b

\* Python int(): truncation toward zero of ticks / TicksPerSecond
IntSeconds(ticks) ==
    IF ticks >= 0 THEN ticks \div TicksPerSecond
    ELSE -((-ticks) \div TicksPerSecond)

\* str.lower() / str.upper() on the names and types of the model
Lower(s) == IF s = "A.com" THEN "a.com" ELSE s
Upper(s) == IF s = "a" THEN "A" ELSE s

----------------------------------------------------------------------------
(* Sequence helpers *)

SeqRemove(s, x) == SelectSeq(s, LAMBDA y : y # x)
MoveToEnd(s, x) == Append(SeqRemove(s, x), x)
Restrict(f, S) == [k \in S |-> f[k]]

----------------------------------------------------------------------------
(* CacheEntry *)

CacheEntryCreate(name, type, answers, ttl, t) ==
    [ query_name    |-> name,
      query_type    |-> type,
      answers       |-> answers,
      stored_at     |-> t,
      expires_at    |-> t + Secs(ttl),
      hit_count     |-> 0,
      last_accessed |-> t ]

IsExpired(e, t) == t >= e.expires_at

TimeToExpire(e, t) == e.expires_at - t

GetRemainingTtlOrig(e, t) == IntSeconds(e.expires_at - e.stored_at)
GetRemainingTtl(e, t) == Max(0, IntSeconds(TimeToExpire(e, t)))

GetTtlSeconds(e) == IntSeconds(e.expires_at - e.stored_at)

Access(e, t) == [e EXCEPT !.hit_count = @ + 1, !.last_accessed = t]

----------------------------------------------------------------------------
(* cachetools.TTLCache(maxsize = max_size, ttl = default_ttl), as the      *)
(* service uses it.  A cache value `c` is [store, lru, links].             *)

LinkExpires(e) == e.stored_at + Secs(DefaultTtl)

\* key in cache: the link exists and timer() < link.expires
TtlContains(c, k, t) == k \in DOMAIN c.store /\ t < LinkExpires(c.store[k])

TtlLiveKeys(c, t) == {k \in DOMAIN c.store : t < LinkExpires(c.store[k])}

\* len(cache): the items that have not expired
TtlLen(c, t) == Cardinality(TtlLiveKeys(c, t))

TtlRemove(c, k) ==
    [ store |-> Restrict(c.store, DOMAIN c.store \ {k}),
      lru   |-> SeqRemove(c.lru, k),
      links |-> SeqRemove(c.links, k) ]

\* expire(time): drop every item whose link has expired
TtlExpire(c, t) ==
    LET live == TtlLiveKeys(c, t) IN
    [ store |-> Restrict(c.store, live),
      lru   |-> SelectSeq(c.lru, LAMBDA k : k \in live),
      links |-> SelectSeq(c.links, LAMBDA k : k \in live) ]

TtlPopItemNewest(c) == TtlRemove(c, c.lru[Len(c.lru)])
\* popitem(): remove the least recently used item
TtlPopItem(c) == TtlRemove(c, Head(c.lru))

RECURSIVE MakeRoom(_)
MakeRoomNever(c) == c
MakeRoom(c) ==
    IF Cardinality(DOMAIN c.store) + 1 > MaxSize /\ c.lru # <<>>
    THEN MakeRoom(TtlPopItem(c))
    ELSE c

\* cache[k] = e: expire, make room for a new key, store, relink at the end
TtlSetItem(c, k, e, t) ==
    LET c1 == TtlExpire(c, t)
        c2 == IF k \in DOMAIN c1.store THEN c1 ELSE MakeRoom(c1)
    IN  [ store |-> [x \in DOMAIN c2.store \cup {k} |->
                        IF x = k THEN e ELSE c2.store[x]],
          lru   |-> MoveToEnd(c2.lru, k),
          links |-> MoveToEnd(c2.links, k) ]

\* iterating cache.items(): every live key is read through __getitem__, in
\* expiry-list order, which moves it to the end of the LRU order
RECURSIVE TouchAll(_, _)
TouchAll(order, ks) ==
    IF ks = <<>> THEN order
    ELSE TouchAll(MoveToEnd(order, Head(ks)), Tail(ks))

TtlIterItems(c, t) ==
    LET live == SelectSeq(c.links, LAMBDA k : k \in TtlLiveKeys(c, t))
    IN  [c EXCEPT !.lru = TouchAll(c.lru, live)]

EmptyCache == [store |-> <<>>, lru |-> <<>>, links |-> <<>>]

----------------------------------------------------------------------------
(* DNSResponse *)

Response(name, type, answers, ttl, source) ==
    [ query_name      |-> name,
      query_type      |-> type,
      answers         |-> answers,
      ttl             |-> ttl,
      upstream_source |-> source ]

\* DNSResponse.validate(), on the fields the model carries
ResponseValid(r) ==
    /\ r.query_name # ""
    /\ r.query_type \in SUPPORTED_TYPES
    /\ r.ttl >= 0
    /\ r.upstream_source \in {"upstream", "cache"}

----------------------------------------------------------------------------
(* DNSCacheService.  Every operation below runs under the service's RLock, *)
(* so it is one atomic step.  An operation maps the cache value, the       *)
(* statistics and the time of the call to [c, stats, ret].                 *)

CreateCacheKey(name, type) == <<Lower(name), Upper(type)>>

ValidQueryParams(name, type) == name # "" /\ type # ""

CacheEntryToResponse(e, t) ==
    Response(e.query_name, e.query_type, e.answers, GetRemainingTtl(e, t), "cache")

Bump(stats, field, n) == [stats EXCEPT ![field] = @ + n]

ZeroCacheStats ==
    [hits |-> 0, misses |-> 0, sets |-> 0, deletes |-> 0, expired |-> 0, evicted |-> 0]

CacheGetExpiredUncounted(c, stats, name, type, t) ==
    LET k == CreateCacheKey(name, type) IN
    IF ~ValidQueryParams(name, type)
    THEN [c |-> c, stats |-> stats, ret |-> Raised("ValidationError")]
    ELSE IF ~TtlContains(c, k, t)
    THEN [c |-> c, stats |-> Bump(stats, "misses", 1), ret |-> RetNone]
    ELSE LET c1 == [c EXCEPT !.lru = MoveToEnd(@, k)]
             e  == c.store[k]
         IN  IF IsExpired(e, t)
             THEN [ c     |-> TtlRemove(c1, k),
                    stats |-> Bump(stats, "expired", 1),
                    ret   |-> RetNone ]
             ELSE LET e1 == Access(e, t) IN
                  [ c     |-> [c1 EXCEPT !.store[k] = e1],
                    stats |-> Bump(stats, "hits", 1),
                    ret   |-> RetResponse(CacheEntryToResponse(e1, t)) ]
CacheGet(c, stats, name, type, t) ==
    LET k == CreateCacheKey(name, type) IN
    IF ~ValidQueryParams(name, type)
    THEN [c |-> c, stats |-> stats, ret |-> Raised("ValidationError")]
    ELSE IF ~TtlContains(c, k, t)
    THEN \* TTLCache.get returns None
         [c |-> c, stats |-> Bump(stats, "misses", 1), ret |-> RetNone]
    ELSE LET c1 == [c EXCEPT !.lru = MoveToEnd(@, k)]
             e  == c.store[k]
         IN  IF IsExpired(e, t)
             THEN [ c     |-> TtlRemove(c1, k),
                    stats |-> Bump(Bump(stats, "expired", 1), "misses", 1),
                    ret   |-> RetNone ]
             ELSE LET e1 == Access(e, t) IN
                  [ c     |-> [c1 EXCEPT !.store[k] = e1],
                    stats |-> Bump(stats, "hits", 1),
                    ret   |-> RetResponse(CacheEntryToResponse(e1, t)) ]

CacheSetIfAbsent(c, stats, resp, t) ==
    IF ~ResponseValid(resp)
    THEN [c |-> c, stats |-> stats, ret |-> Raised("ValueError")]
    ELSE IF resp.ttl <= 0
    THEN [c |-> c, stats |-> stats, ret |-> RetNone]
    ELSE LET k == CreateCacheKey(resp.query_name, resp.query_type)
             e == CacheEntryCreate(resp.query_name, resp.query_type,
                                   resp.answers, resp.ttl, t)
             c1 == IF TtlContains(c, k, t) THEN c ELSE TtlSetItem(c, k, e, t)
         IN  [c |-> c1, stats |-> Bump(stats, "sets", 1), ret |-> RetNone]
CacheSetAnyTtl(c, stats, resp, t) ==
    IF ~ResponseValid(resp)
    THEN [c |-> c, stats |-> stats, ret |-> Raised("ValueError")]
    ELSE LET k        == CreateCacheKey(resp.query_name, resp.query_type)
             e        == CacheEntryCreate(resp.query_name, resp.query_type,
                                          resp.answers, resp.ttl, t)
             old_size == TtlLen(c, t)
             c1       == TtlSetItem(c, k, e, t)
             new_size == TtlLen(c1, t)
             st1      == IF new_size <= old_size
                         THEN Bump(stats, "evicted", old_size - new_size + 1)
                         ELSE stats
         IN  [c |-> c1, stats |-> Bump(st1, "sets", 1), ret |-> RetNone]
CacheSet(c, stats, resp, t) ==
    IF ~ResponseValid(resp)
    THEN [c |-> c, stats |-> stats, ret |-> Raised("ValueError")]
    ELSE IF resp.ttl <= 0
    THEN [c |-> c, stats |-> stats, ret |-> RetNone]
    ELSE LET k        == CreateCacheKey(resp.query_name, resp.query_type)
             e        == CacheEntryCreate(resp.query_name, resp.query_type,
                                          resp.answers, resp.ttl, t)
             old_size == TtlLen(c, t)
             c1       == TtlSetItem(c, k, e, t)
             new_size == TtlLen(c1, t)
             st1      == IF new_size <= old_size
                         THEN Bump(stats, "evicted", old_size - new_size + 1)
                         ELSE stats
         IN  [c |-> c1, stats |-> Bump(st1, "sets", 1), ret |-> RetNone]

CacheDelete(c, stats, name, type, t) ==
    LET k == CreateCacheKey(name, type) IN
    IF ~ValidQueryParams(name, type)
    THEN [c |-> c, stats |-> stats, ret |-> Raised("ValidationError")]
    ELSE IF TtlContains(c, k, t)
    THEN [c |-> TtlRemove(c, k), stats |-> Bump(stats, "deletes", 1), ret |-> RetBool(TRUE)]
    ELSE [c |-> c, stats |-> stats, ret |-> RetBool(FALSE)]

CacheClear(c, stats, t) ==
    [c |-> EmptyCache, stats |-> stats, ret |-> RetNone]

RECURSIVE RemoveAll(_, _)
RemoveAll(c, ks) ==
    IF ks = {} THEN c
    ELSE LET k == CHOOSE x \in ks : TRUE IN RemoveAll(TtlRemove(c, k), ks \ {k})

CacheCleanupExpired(c, stats, t) ==
    LET c1           == TtlIterItems(c, t)
        expired_keys == {k \in TtlLiveKeys(c, t) : IsExpired(c.store[k], t)}
        n            == Cardinality(expired_keys)
    IN  [c |-> RemoveAll(c1, expired_keys), stats |-> Bump(stats, "expired", n), ret |-> RetInt(n)]

----------------------------------------------------------------------------
(* The cache service driven directly by its callers *)

\* a thread that is not inside a DNSCacheService call
IdleCaller ==
    [pc |-> "idle", loaded |-> ZeroCacheStats, delta |-> ZeroCacheStats, made |-> ZeroCacheStats]

CacheVal == [store |-> cache, lru |-> lru, links |-> links]

CacheApply(op, key, r) ==
    /\ cache' = r.c.store
    /\ lru' = r.c.lru
    /\ links' = r.c.links
    /\ cache_stats' = r.stats
    /\ cache_ret' = [op |-> op, key |-> key, ret |-> r.ret]

OpsDone ==
    cache_stats.hits + cache_stats.misses + cache_stats.sets + cache_stats.deletes

Tick ==
    /\ \/ now % Jump < Slack /\ now' = now + 1
       \/ now < Jump /\ now' = now + Jump
    /\ UNCHANGED <<cacheVars, upstreamVars, task, proxyVars, serverVars, callers, held>>

Get ==
    /\ OpsDone < MaxOps
    /\ \E q \in QueryArgs :
          CacheApply("get", CreateCacheKey(q[1], q[2]), CacheGet(CacheVal, cache_stats, q[1], q[2], now))
    /\ UNCHANGED now

Set ==
    /\ OpsDone < MaxOps
    /\ \E q \in SetArgs, a \in SetAnswers, ttl \in SetTtls :
          CacheApply("set", <<>>, CacheSet(CacheVal, cache_stats,
                              Response(q[1], q[2], a, ttl, "upstream"), now))
    /\ UNCHANGED now

Delete ==
    /\ OpsDone < MaxOps
    /\ \E q \in QueryArgs :
          CacheApply("delete", <<>>, CacheDelete(CacheVal, cache_stats, q[1], q[2], now))
    /\ UNCHANGED now

Clear ==
    /\ CacheApply("clear", <<>>, CacheClear(CacheVal, cache_stats, now))
    /\ UNCHANGED now

CleanupExpired ==
    /\ CacheApply("cleanup_expired", <<>>, CacheCleanupExpired(CacheVal, cache_stats, now))
    /\ UNCHANGED now

CacheInit ==
    /\ now = 0
    /\ cache = <<>>
    /\ lru = <<>>
    /\ links = <<>>
    /\ cache_stats = ZeroCacheStats
    /\ cache_ret = [op |-> "init", key |-> <<>>, ret |-> RetNone]
    /\ callers = [t \in Tasks |-> IdleCaller]
    /\ held = [t \in Tasks |-> << >>]

----------------------------------------------------------------------------
(* The cache as the running service uses it: get and set only, with one    *)
(* more name than the cache has room for                                   *)

LruNames == <<"a.com", "b.com", "c.com", "d.com", "e.com">>
LruKeys == { <<LruNames[i], "A">> : i \in 1..(MaxSize + 1) }
LruTtls == {1}

\* cap on the calls: fill the cache, hit one entry, store one more
MaxLruOps == MaxSize + 2

LruOps == cache_stats.hits + cache_stats.misses + cache_stats.sets

\* a call applied to the cache; the call's record also keeps the entries
\* that the call took out of the cache
LruApply(op, key, r) ==
    /\ cache' = r.c.store
    /\ lru' = r.c.lru
    /\ links' = r.c.links
    /\ cache_stats' = r.stats
    /\ cache_ret' = [ op      |-> op,
                      key     |-> key,
                      ret     |-> r.ret,
                      removed |-> {cache[k] : k \in DOMAIN cache \ DOMAIN r.c.store} ]

LruGet ==
    /\ LruOps < MaxLruOps
    /\ \E q \in LruKeys \cup {<<"", "A">>} :
          LruApply("get", CreateCacheKey(q[1], q[2]),
                   CacheGet(CacheVal, cache_stats, q[1], q[2], now))
    /\ UNCHANGED <<now, callers, held, upstreamVars, task, proxyVars, serverVars>>

LruSet ==
    /\ LruOps < MaxLruOps
    /\ \E q \in LruKeys, a \in SetAnswers, ttl \in LruTtls :
          LruApply("set", CreateCacheKey(q[1], q[2]),
                   CacheSet(CacheVal, cache_stats, Response(q[1], q[2], a, ttl, "upstream"), now))
    /\ UNCHANGED <<now, callers, held, upstreamVars, task, proxyVars, serverVars>>

LruNext ==
    \/ LruGet
    \/ LruSet
    \/ Tick

----------------------------------------------------------------------------
(* DNSCacheService called from several threads.  A call takes self._lock   *)
(* (`with self._lock:`), works on the cache, reads and writes the counters *)
(* of _stats (`+=` is a read followed by a write), and releases the lock.  *)

ThreadKeys == {<<"a.com", "A">>, <<"b.com", "A">>}

StatsKeys == DOMAIN ZeroCacheStats

\* cap on the counted calls: every thread completes one and one more begins
MaxThreadCalls == Cardinality(Tasks) + 1

\* calls begun so far that count (cleanup_expired and a delete of a missing
\* key can be repeated without end and change nothing)
ThreadCalls ==
    LET n(t) == callers[t].made.hits + callers[t].made.misses
                + callers[t].made.sets + callers[t].made.deletes
                + (IF callers[t].pc = "locked" THEN 1 ELSE 0)
    IN  n(1) + n(2)

LockFree == \A u \in Tasks : callers[u].pc = "idle"

\* entering `with self._lock:`
AcquireNoLock(t) ==
    /\ callers[t].pc = "idle"
    /\ ThreadCalls < MaxThreadCalls
Acquire(t) ==
    /\ callers[t].pc = "idle"
    /\ LockFree
    /\ ThreadCalls < MaxThreadCalls

\* the body of a call up to the write of the counters: the cache is changed,
\* the counters were read and the new values are about to be written
ThreadBody(t, op, r) ==
    /\ cache' = r.c.store
    /\ lru' = r.c.lru
    /\ links' = r.c.links
    /\ cache_ret' = [op |-> op, key |-> <<>>, ret |-> r.ret]
    /\ callers' = [callers EXCEPT ![t] =
                      [@ EXCEPT !.pc = "locked",
                                !.loaded = cache_stats,
                                !.delta = [k \in StatsKeys |-> r.stats[k] - cache_stats[k]]]]
    /\ UNCHANGED <<cache_stats, now, upstreamVars, task, proxyVars, serverVars, held>>

ThreadGet(t) ==
    /\ Acquire(t)
    /\ \E q \in ThreadKeys :
          ThreadBody(t, "get", CacheGet(CacheVal, cache_stats, q[1], q[2], now))

ThreadSet(t) ==
    /\ Acquire(t)
    /\ \E q \in ThreadKeys, a \in SetAnswers :
          ThreadBody(t, "set", CacheSet(CacheVal, cache_stats,
                                        Response(q[1], q[2], a, 1, "upstream"), now))

ThreadDelete(t) ==
    /\ Acquire(t)
    /\ \E q \in ThreadKeys :
          ThreadBody(t, "delete", CacheDelete(CacheVal, cache_stats, q[1], q[2], now))

ThreadCleanupExpired(t) ==
    /\ Acquire(t)
    /\ ThreadBody(t, "cleanup_expired", CacheCleanupExpired(CacheVal, cache_stats, now))

\* the write of the counters and the end of the `with` block
StoreStats(t) ==
    /\ callers[t].pc = "locked"
    /\ cache_stats' = [k \in StatsKeys |-> callers[t].loaded[k] + callers[t].delta[k]]
    /\ callers' = [callers EXCEPT ![t] =
                      [@ EXCEPT !.pc = "idle",
                                !.made = [k \in StatsKeys |-> @[k] + callers[t].delta[k]]]]
    /\ UNCHANGED <<cache, lru, links, cache_ret, now, upstreamVars, task, proxyVars, serverVars, held>>

ThreadsNext ==
    \/ \E t \in Tasks : ThreadGet(t)
    \/ \E t \in Tasks : ThreadSet(t)
    \/ \E t \in Tasks : ThreadDelete(t)
    \/ \E t \in Tasks : ThreadCleanupExpired(t)
    \/ \E t \in Tasks : StoreStats(t)
    \/ Tick

----------------------------------------------------------------------------
(* UpstreamService: the circuit breaker *)

NoTime == -1

ClosedCircuit ==
    [ circuit_breaker_state     |-> "CLOSED",
      consecutive_failures      |-> 0,
      circuit_breaker_open_time |-> NoTime ]

RecordSuccessCountOnly(us) == [us EXCEPT !.consecutive_failures = 0]
RecordSuccess(us) ==
    IF us.circuit_breaker_state # "CLOSED"
    THEN [us EXCEPT !.consecutive_failures = 0,
                    !.circuit_breaker_state = "CLOSED",
                    !.circuit_breaker_open_time = NoTime]
    ELSE [us EXCEPT !.consecutive_failures = 0]

RecordFailureNoOpen(us, t) == [us EXCEPT !.consecutive_failures = @ + 1]
RecordFailure(us, t) ==
    LET n == us.consecutive_failures + 1 IN
    IF n >= FailureThreshold /\ us.circuit_breaker_state = "CLOSED"
    THEN [us EXCEPT !.consecutive_failures = n,
                    !.circuit_breaker_state = "OPEN",
                    !.circuit_breaker_open_time = t]
    ELSE [us EXCEPT !.consecutive_failures = n]

\* returns the (possibly changed) service and whether the request may go on
ShouldAllowRequestAlways(us, t) == [us |-> us, allow |-> TRUE]
ShouldAllowRequest(us, t) ==
    IF us.circuit_breaker_state = "CLOSED"
    THEN [us |-> us, allow |-> TRUE]
    ELSE IF us.circuit_breaker_state = "OPEN"
    THEN IF /\ us.circuit_breaker_open_time # NoTime
            /\ t >= us.circuit_breaker_open_time + Secs(CircuitBreakerTimeout)
         THEN [us |-> [us EXCEPT !.circuit_breaker_state = "HALF_OPEN"], allow |-> TRUE]
         ELSE [us |-> us, allow |-> FALSE]
    ELSE IF us.circuit_breaker_state = "HALF_OPEN"
    THEN [us |-> us, allow |-> TRUE]
    ELSE [us |-> us, allow |-> FALSE]

ResetCircuitBreakerModel(us) == ClosedCircuit

----------------------------------------------------------------------------
(* UpstreamDoHService *)

ZeroUpstreamStats ==
    [ total_requests |-> 0, successful_requests |-> 0, failed_requests |-> 0,
      timeout_errors |-> 0, connection_errors |-> 0, service_errors |-> 0,
      circuit_breaker_blocks |-> 0 ]

\* what one HTTP attempt can end in: a parsed answer, or one of the errors
\* _execute_single_request raises
HttpErrors == {"UpstreamTimeoutError", "UpstreamServiceError4xx"}

\* lib.exceptions.is_retriable_error: timeouts, connection errors and 5xx
IsRetriableError(e) ==
    e \in {"UpstreamTimeoutError", "UpstreamConnectionError", "UpstreamServiceError5xx"}

ErrorCounter(e) ==
    IF e = "UpstreamTimeoutError" THEN "timeout_errors"
    ELSE IF e = "UpstreamConnectionError" THEN "connection_errors"
    ELSE "service_errors"

RECURSIVE Pow2(_)
Pow2(n) == IF n = 0 THEN 1 ELSE 2 * Pow2(n - 1)

Min(a, b) == IF a <= b THEN a ELSE b

Backoff(attempt) == Min(Pow2(attempt), MaxBackoff)

\* answers of an upstream JSON body: records [data, TTL]; TTL = NoTtl when the
\* record carries none
NoTtl == -1

RECURSIVE MinTtl(_, _)
MinTtl(answers, acc) ==
    IF answers = <<>> THEN acc
    ELSE LET a == Head(answers)
             m == IF a.TTL # NoTtl /\ a.TTL >= 0
                  THEN (IF acc = NoTtl THEN a.TTL ELSE Min(acc, a.TTL))
                  ELSE acc
         IN  MinTtl(Tail(answers), m)

EmptyAnswerTtl == 300

ExtractTtlFirstUsable(answers) ==
    LET usable == SelectSeq(answers, LAMBDA a : a.TTL # NoTtl /\ a.TTL >= 0) IN
    IF usable = <<>> THEN EmptyAnswerTtl ELSE usable[1].TTL
ExtractTtl(answers) ==
    IF answers = <<>> THEN EmptyAnswerTtl
    ELSE LET m == MinTtl(answers, NoTtl) IN
         IF m # NoTtl THEN m ELSE EmptyAnswerTtl

ParseResponse(q, answers) ==
    Response(q[1], q[2], answers, ExtractTtl(answers), "upstream")

----------------------------------------------------------------------------
(* Request threads.  A thread is idle, or inside UpstreamDoHService.query   *)
(* (called directly, or by DNSProxyService.resolve).                        *)

NoQuery == <<"", "">>

IdleTask ==
    [ pc       |-> "idle",
      caller   |-> "none",
      q        |-> NoQuery,
      attempt  |-> 0,
      outcome  |-> RetNone,
      wake_at  |-> 0,
      client   |-> "None",
      ret      |-> RetNone ]

NoEvent == [op |-> "none", before |-> ClosedCircuit]

Event(op) == [op |-> op, before |-> upstream_service]

UpstreamInit ==
    /\ upstream_service = ClosedCircuit
    /\ upstream_stats = ZeroUpstreamStats
    /\ http_calls = 0
    /\ event = NoEvent
    /\ task = [t \in Tasks |-> IdleTask]

QueriesMade == upstream_stats.total_requests + upstream_stats.circuit_breaker_blocks

\* where a thread goes when query returns or raises: back to idle when it
\* called query directly; inside resolve, on to the cache write (ttl > 0), to
\* the statistics update, or into resolve's except clauses
Return(tk, r) ==
    IF tk.caller = "resolve"
    THEN [tk EXCEPT !.pc = IF r.kind # "response" THEN "except"
                           ELSE IF r.response.ttl > 0 THEN "cache_write"
                           ELSE "count_upstream",
                    !.outcome = r, !.attempt = 0]
    ELSE [tk EXCEPT !.pc = "idle", !.ret = r, !.outcome = RetNone, !.attempt = 0]

\* UpstreamDoHService.query, up to the end of its locked section: what
\* admission does to the circuit breaker and to the calling thread
AdmitCircuit(t, q, caller) ==
    LET r == ShouldAllowRequest(upstream_service, now) IN
    /\ upstream_service' = r.us
    /\ event' = Event("admit")
    /\ IF r.allow
       THEN task' = [task EXCEPT ![t] =
                       [@ EXCEPT !.pc = "attempt", !.caller = caller, !.q = q,
                                 !.attempt = 0, !.outcome = RetNone, !.wake_at = 0,
                                 !.ret = RetNone]]
       ELSE task' = [task EXCEPT ![t] =
                       Return([@ EXCEPT !.caller = caller, !.q = q],
                              Raised("CircuitBreakerOpenError"))]

\* UpstreamDoHService.query, up to the end of its locked section: admission
Admit(t, q, caller) ==
    /\ AdmitCircuit(t, q, caller)
    /\ upstream_stats' =
          Bump(upstream_stats,
               IF ShouldAllowRequest(upstream_service, now).allow
               THEN "total_requests" ELSE "circuit_breaker_blocks", 1)
    /\ UNCHANGED http_calls

\* _execute_single_request: urlopen is called (after the backoff sleep, if any)
HttpStart(t) ==
    /\ \/ task[t].pc = "attempt"
       \/ task[t].pc = "backoff" /\ now >= task[t].wake_at
    /\ http_calls' = http_calls + 1
    /\ task' = [task EXCEPT ![t].pc = "inflight"]
    /\ UNCHANGED <<upstream_service, upstream_stats, event, now, cacheVars, proxyVars, serverVars, callers, held>>

\* the HTTP exchange ends: a body that parses and validates, or an error
HttpFinish(t, answerLists, errors) ==
    /\ task[t].pc = "inflight"
    /\ \E o \in {RetResponse(ParseResponse(task[t].q, a)) : a \in answerLists}
                \cup {Raised(e) : e \in errors} :
          task' = [task EXCEPT ![t].pc = "record", ![t].outcome = o]
    /\ UNCHANGED <<upstream_service, upstream_stats, http_calls, event, now, cacheVars, proxyVars, serverVars, callers, held>>

\* _execute_with_retries: break out of the retry loop (max_attempts is
\* retry_attempts + 1, attempt is zero-based)
StopRetryingTerminalOnly(e, attempt) == ~IsRetriableError(e)
StopRetryingLastOnly(e, attempt) == attempt = (RetryAttempts + 1) - 1
StopRetrying(e, attempt) == ~IsRetriableError(e) \/ attempt = (RetryAttempts + 1) - 1

\* _execute_with_retries: what the locked section after an attempt does to
\* the circuit breaker, and the decision to return, raise or sleep and retry
RecordCircuit(t) ==
    /\ task[t].pc = "record"
    /\ LET o == task[t].outcome IN
       IF o.kind = "response"
       THEN /\ upstream_service' = RecordSuccess(upstream_service)
            /\ event' = Event("record_success")
            /\ task' = [task EXCEPT ![t] = Return(@, o)]
       ELSE /\ upstream_service' = RecordFailure(upstream_service, now)
            /\ event' = Event("record_failure")
            /\ IF StopRetrying(o.error, task[t].attempt)
               THEN task' = [task EXCEPT ![t] = Return(@, o)]
               ELSE task' = [task EXCEPT ![t] =
                               [@ EXCEPT !.pc = "backoff",
                                         !.wake_at = now + Secs(Backoff(task[t].attempt)),
                                         !.attempt = @ + 1,
                                         !.outcome = RetNone]]

\* _execute_with_retries: the locked section after an attempt, with its
\* counters
Record(t) ==
    /\ RecordCircuit(t)
    /\ LET o == task[t].outcome IN
       upstream_stats' =
          IF o.kind = "response"
          THEN Bump(upstream_stats, "successful_requests", 1)
          ELSE Bump(Bump(upstream_stats, "failed_requests", 1), ErrorCounter(o.error), 1)
    /\ UNCHANGED <<http_calls, now, cacheVars, proxyVars, serverVars, callers, held>>

\* UpstreamDoHService.reset_circuit_breaker
ResetCircuitBreaker ==
    /\ upstream_service # ClosedCircuit
    /\ upstream_service' = ResetCircuitBreakerModel(upstream_service)
    /\ event' = Event("reset")
    /\ UNCHANGED <<upstream_stats, http_calls, task, now, cacheVars, proxyVars, serverVars, callers, held>>

----------------------------------------------------------------------------
(* The upstream service called directly by its threads *)

UpstreamQueries == {<<"a.com", "A">>}
UpstreamAnswers == {<<[data |-> "ip1", TTL |-> 1]>>}

Query(t) ==
    /\ task[t].pc = "idle"
    /\ QueriesMade < MaxQueries
    /\ \E q \in UpstreamQueries : Admit(t, q, "query")
    /\ UNCHANGED <<now, cacheVars, proxyVars, serverVars, callers, held>>

UpTick ==
    /\ now < Secs(CircuitBreakerTimeout) + Slack
    /\ now' = now + 1
    /\ UNCHANGED <<cacheVars, upstreamVars, task, proxyVars, serverVars, callers, held>>

\* the retry loop on its own: a few queries, and a clock that runs for as
\* long as a thread sleeps in its backoff
RetryQueries == Cardinality(Tasks)   \* one query for each thread

RetryQuery(t) ==
    /\ QueriesMade < RetryQueries
    /\ Query(t)

SleepTick ==
    /\ \/ now < Slack
       \/ \E t \in Tasks : task[t].pc = "backoff" /\ now < task[t].wake_at
    /\ now' = now + 1
    /\ UNCHANGED <<cacheVars, upstreamVars, task, proxyVars, serverVars, callers, held>>

\* the ways one attempt can fail, and the exception _execute_single_request
\* raises for each: URLError with "timeout" in its reason, any other URLError,
\* HTTPError, a body that is not JSON (status 200), and a DNSResponse that
\* fails validate() (a ValueError, wrapped by the outer except Exception)
AttemptFailures ==
    {"timeout", "connection", "http4xx", "http5xx", "bad_json", "invalid_response"}
SingleRequestRaises(f) ==
    CASE f = "timeout"          -> "UpstreamTimeoutError"
      [] f = "connection"       -> "UpstreamConnectionError"
      [] f = "http4xx"          -> "UpstreamServiceError4xx"
      [] f = "http5xx"          -> "UpstreamServiceError5xx"
      [] f = "bad_json"         -> "UpstreamServiceErrorJson"
      [] f = "invalid_response" -> "UpstreamServiceErrorUnexpected"
AttemptErrors == { SingleRequestRaises(f) : f \in AttemptFailures }

\* the retry loop with every kind of failure; one query per thread
AllFailuresNext ==
    \/ \E t \in Tasks : RetryQuery(t)
    \/ \E t \in Tasks : HttpStart(t)
    \/ \E t \in Tasks : HttpFinish(t, UpstreamAnswers, AttemptErrors)
    \/ \E t \in Tasks : Record(t)
    \/ SleepTick

RetryNext ==
    \/ \E t \in Tasks : RetryQuery(t)
    \/ \E t \in Tasks : HttpStart(t)
    \/ \E t \in Tasks : HttpFinish(t, UpstreamAnswers, HttpErrors)
    \/ \E t \in Tasks : Record(t)
    \/ SleepTick

UpstreamNext ==
    \/ \E t \in Tasks : Query(t)
    \/ \E t \in Tasks : HttpStart(t)
    \/ \E t \in Tasks : HttpFinish(t, UpstreamAnswers, HttpErrors)
    \/ \E t \in Tasks : Record(t)
    \/ ResetCircuitBreaker
    \/ UpTick

\* Queries that arrive without end at an upstream that fails for a while and
\* then answers every attempt.  The counters of _stats and the count of
\* urlopen calls are written but never read by the circuit breaker or the
\* retry loop; they are left as they are here, so that the number of queries
\* is not bounded.
FailuresEnd == Secs(CircuitBreakerTimeout) + Slack  \* the time from which every attempt succeeds
MaxRecoveryFailures == FailureThreshold + 1         \* no attempt fails once so many failed in a row

RecoveryErrors ==
    IF now < FailuresEnd /\ upstream_service.consecutive_failures < MaxRecoveryFailures
    THEN HttpErrors ELSE {}

RecoveryQuery(t) ==
    /\ task[t].pc = "idle"
    /\ \E q \in UpstreamQueries : AdmitCircuit(t, q, "query")
    /\ UNCHANGED <<upstream_stats, http_calls, now, cacheVars, proxyVars, serverVars, callers, held>>

RecoveryHttpStart(t) ==
    /\ \/ task[t].pc = "attempt"
       \/ task[t].pc = "backoff" /\ now >= task[t].wake_at
    /\ task' = [task EXCEPT ![t].pc = "inflight"]
    /\ UNCHANGED <<upstreamVars, now, cacheVars, proxyVars, serverVars, callers, held>>

RecoveryRecord(t) ==
    /\ RecordCircuit(t)
    /\ UNCHANGED <<upstream_stats, http_calls, now, cacheVars, proxyVars, serverVars, callers, held>>

\* the clock runs while the upstream may still fail, while an open circuit
\* waits for its timeout and while a thread sleeps in its backoff
RecoveryTick ==
    /\ \/ now < FailuresEnd
       \/ /\ upstream_service.circuit_breaker_state = "OPEN"
          /\ now < upstream_service.circuit_breaker_open_time + Secs(CircuitBreakerTimeout)
       \/ \E t \in Tasks : task[t].pc = "backoff" /\ now < task[t].wake_at
    /\ now' = now + 1
    /\ UNCHANGED <<cacheVars, upstreamVars, task, proxyVars, serverVars, callers, held>>

RecoveryNext ==
    \/ \E t \in Tasks : RecoveryQuery(t)
    \/ \E t \in Tasks : RecoveryHttpStart(t)
    \/ \E t \in Tasks : HttpFinish(t, UpstreamAnswers, RecoveryErrors)
    \/ \E t \in Tasks : RecoveryRecord(t)
    \/ RecoveryTick

----------------------------------------------------------------------------
(* DNSProxyService *)

ZeroProxyStats ==
    [ total_queries |-> 0, cache_hits |-> 0, cache_misses |-> 0,
      upstream_queries |-> 0, upstream_errors |-> 0, validation_errors |-> 0,
      rate_limit_errors |-> 0, circuit_breaker_errors |-> 0 ]

\* _initialize_rate_limiter: an empty dict
InitializeRateLimiter == [c \in {} |-> [window |-> 0, count |-> 0]]

\* Python truth value of the dict
Truthy(d) == DOMAIN d # {}

ProxyInit ==
    /\ rate_limiter = InitializeRateLimiter
    /\ proxy_stats = ZeroProxyStats

\* datetime.replace(second=0, microsecond=0)
WindowStart(t) == t - (t % Secs(WindowSeconds))

\* the retry_after that the RateLimitExceededError is built with
RetryAfter == 60

CheckRateLimitCountFirst(rl, c, t) ==
    IF ~Truthy(rl) THEN [rl |-> rl, raise |-> FALSE, retry_after |-> 0]
    ELSE LET w   == WindowStart(t)
             rl1 == IF c \in DOMAIN rl THEN rl
                    ELSE [x \in DOMAIN rl \cup {c} |->
                            IF x = c THEN [window |-> w, count |-> 0] ELSE rl[x]]
             rl2 == IF rl1[c].window < w
                    THEN [rl1 EXCEPT ![c] = [window |-> w, count |-> 0]]
                    ELSE rl1
             rl3 == [rl2 EXCEPT ![c].count = @ + 1]
         IN  IF rl3[c].count > RateLimitRequestsPerMinute
             THEN [rl |-> rl3, raise |-> TRUE, retry_after |-> RetryAfter]
             ELSE [rl |-> rl3, raise |-> FALSE, retry_after |-> 0]
\* _check_rate_limit: returns the dict, whether RateLimitExceededError is
\* raised, and the retry_after it then carries
CheckRateLimit(rl, c, t) ==
    IF ~Truthy(rl) THEN [rl |-> rl, raise |-> FALSE, retry_after |-> 0]
    ELSE LET w   == WindowStart(t)
             rl1 == IF c \in DOMAIN rl THEN rl
                    ELSE [x \in DOMAIN rl \cup {c} |->
                            IF x = c THEN [window |-> w, count |-> 0] ELSE rl[x]]
             rl2 == IF rl1[c].window < w
                    THEN [rl1 EXCEPT ![c] = [window |-> w, count |-> 0]]
                    ELSE rl1
         IN  IF rl2[c].count >= RateLimitRequestsPerMinute
             THEN [rl |-> rl2, raise |-> TRUE, retry_after |-> RetryAfter]
             ELSE [rl |-> [rl2 EXCEPT ![c].count = @ + 1], raise |-> FALSE,
                   retry_after |-> 0]

\* ipaddress.ip_address accepts it
ValidIp(ip) == ip \in {"10.0.0.1", "10.0.0.2"}

\* DNSQuery.validate on the DNSQuery that resolve builds: a missing client_ip
\* becomes "unknown", a missing port or packet size becomes 0
DNSQueryValid(a) ==
    /\ a.query_name # ""
    /\ a.query_type \in SUPPORTED_TYPES
    /\ ValidIp(IF a.client_ip = "None" THEN "unknown" ELSE a.client_ip)
    /\ a.client_port >= 1 /\ a.client_port <= 65535
    /\ a.packet_size > 0 /\ a.packet_size <= 512

\* which except clause of resolve takes the error, by the counter it bumps
ExceptCounter(e) ==
    IF e = "ValidationError" THEN "validation_errors"
    ELSE IF e = "RateLimitExceededError" THEN "rate_limit_errors"
    ELSE IF e = "CircuitBreakerOpenError" THEN "circuit_breaker_errors"
    ELSE "upstream_errors"

\* the classes of lib.exceptions derive from DNSProxyError; ValueError does not
IsDNSProxyError(e) == e # "ValueError"

ExceptRaises(e) == IF IsDNSProxyError(e) THEN e ELSE "ServiceUnavailableError"

InResolve(t) == task[t].pc # "idle" /\ task[t].caller = "resolve"

\* calls that were admitted (counted or about to be); calls that failed
Admitted == proxy_stats.total_queries + Cardinality({t \in Tasks : task[t].pc = "count_query"})
Failing ==
    proxy_stats.upstream_errors + proxy_stats.rate_limit_errors
    + proxy_stats.circuit_breaker_errors + proxy_stats.validation_errors
    + Cardinality({t \in Tasks : task[t].pc = "except"})

ResolveArgs ==
    { [query_name |-> "a.com", query_type |-> "A", client_ip |-> "10.0.0.1",
       client_port |-> 53000, packet_size |-> 40],
      [query_name |-> "a.com", query_type |-> "A", client_ip |-> "None",
       client_port |-> 53000, packet_size |-> 40] }
ResolveErrors == {"UpstreamTimeoutError"}
ResolveAnswers ==
    { <<[data |-> "ip1", TTL |-> 1]>>, <<[data |-> "ip1", TTL |-> DefaultTtl + 1]>> }

\* resolve, lines 127-152: health check (reads only), DNSQuery.validate,
\* rate-limit admission
StartResolve(t, args) ==
    /\ task[t].pc = "idle"
    /\ Admitted < MaxResolves
    /\ Failing < MaxFailing
    /\ \E a \in args :
         LET tk == [IdleTask EXCEPT !.caller = "resolve",
                                    !.q = <<a.query_name, a.query_type>>,
                                    !.client = a.client_ip]
         IN
         IF ~DNSQueryValid(a)
         THEN /\ task' = [task EXCEPT ![t] =
                            [tk EXCEPT !.pc = "except", !.outcome = Raised("ValueError")]]
              /\ UNCHANGED rate_limiter
         ELSE IF Truthy(rate_limiter) /\ a.client_ip # "None"
         THEN LET r == CheckRateLimit(rate_limiter, a.client_ip, now) IN
              /\ rate_limiter' = r.rl
              /\ task' = [task EXCEPT ![t] =
                            IF r.raise
                            THEN [tk EXCEPT !.pc = "except",
                                            !.outcome = Raised("RateLimitExceededError")]
                            ELSE [tk EXCEPT !.pc = "count_query"]]
         ELSE /\ task' = [task EXCEPT ![t] = [tk EXCEPT !.pc = "count_query"]]
              /\ UNCHANGED rate_limiter
    /\ UNCHANGED <<proxy_stats, now, cacheVars, upstreamVars>>

\* resolve called by a caller other than the datagram handler
Resolve(t, args) ==
    /\ StartResolve(t, args)
    /\ UNCHANGED <<serverVars, callers, held>>

\* lines 155-156
CountQuery(t) ==
    /\ task[t].pc = "count_query"
    /\ proxy_stats' = Bump(proxy_stats, "total_queries", 1)
    /\ task' = [task EXCEPT ![t].pc = "try_cache"]
    /\ UNCHANGED <<rate_limiter, now, cacheVars, upstreamVars, serverVars, callers, held>>

\* _try_cache: DNSCacheService.get; an exception counts as no cached response
TryCache(t) ==
    /\ task[t].pc = "try_cache"
    /\ LET q == task[t].q
           r == CacheGet(CacheVal, cache_stats, q[1], q[2], now)
       IN  /\ CacheApply("get", CreateCacheKey(q[1], q[2]), r)
           /\ task' = [task EXCEPT ![t] =
                         IF r.ret.kind = "response"
                         THEN [@ EXCEPT !.pc = "hit", !.outcome = r.ret]
                         ELSE [@ EXCEPT !.pc = "miss"]]
    /\ UNCHANGED <<proxyVars, now, upstreamVars, serverVars, callers, held>>

CountHitThenUpstream(t) ==
    /\ task[t].pc = "hit"
    /\ proxy_stats' = Bump(proxy_stats, "cache_hits", 1)
    /\ task' = [task EXCEPT ![t].pc = "upstream"]
    /\ UNCHANGED <<rate_limiter, now, cacheVars, upstreamVars, serverVars, callers, held>>
\* _try_cache when DNSCacheService.get raises (CacheError): the exception is
\* logged and None is returned
TryCachePropagates(t) ==
    /\ task[t].pc = "try_cache"
    /\ cache_ret' = [op |-> "get", key |-> CreateCacheKey(task[t].q[1], task[t].q[2]),
                     ret |-> Raised("CacheError")]
    /\ task' = [task EXCEPT ![t] = [@ EXCEPT !.pc = "except", !.outcome = Raised("CacheError")]]
    /\ UNCHANGED <<cache, lru, links, cache_stats, proxyVars, now, upstreamVars, serverVars, callers, held>>
TryCacheRaises(t) ==
    /\ task[t].pc = "try_cache"
    /\ cache_ret' = [op |-> "get", key |-> CreateCacheKey(task[t].q[1], task[t].q[2]),
                     ret |-> Raised("CacheError")]
    /\ task' = [task EXCEPT ![t].pc = "miss"]
    /\ UNCHANGED <<cache, lru, links, cache_stats, proxyVars, now, upstreamVars, serverVars, callers, held>>

\* lines 160-180
CountHit(t) ==
    /\ task[t].pc = "hit"
    /\ proxy_stats' = Bump(proxy_stats, "cache_hits", 1)
    /\ task' = [task EXCEPT ![t] =
                  [@ EXCEPT !.pc = "idle", !.ret = task[t].outcome, !.outcome = RetNone]]
    /\ UNCHANGED <<rate_limiter, now, cacheVars, upstreamVars, serverVars, callers, held>>

CountMissSkipped(t) ==
    /\ task[t].pc = "miss"
    /\ task' = [task EXCEPT ![t].pc = "upstream"]
    /\ UNCHANGED <<proxy_stats, rate_limiter, now, cacheVars, upstreamVars, serverVars, callers, held>>
\* lines 183-184
CountMiss(t) ==
    /\ task[t].pc = "miss"
    /\ proxy_stats' = Bump(proxy_stats, "cache_misses", 1)
    /\ task' = [task EXCEPT ![t].pc = "upstream"]
    /\ UNCHANGED <<rate_limiter, now, cacheVars, upstreamVars, serverVars, callers, held>>

\* _query_upstream: UpstreamDoHService.query
QueryUpstream(t) ==
    /\ task[t].pc = "upstream"
    /\ Admit(t, task[t].q, "resolve")
    /\ UNCHANGED <<proxyVars, now, cacheVars, serverVars, callers, held>>

\* _try_cache_response: DNSCacheService.set; an exception is logged and dropped
CacheWrite(t) ==
    /\ task[t].pc = "cache_write"
    /\ CacheApply("set", <<>>, CacheSet(CacheVal, cache_stats, task[t].outcome.response, now))
    /\ task' = [task EXCEPT ![t].pc = "count_upstream"]
    /\ UNCHANGED <<proxyVars, now, upstreamVars, serverVars, callers, held>>

\* _try_cache_response when DNSCacheService.set raises (response.validate()
\* rejecting the response, or CacheError): the exception is logged and dropped
CacheWriteRaises(t) ==
    /\ task[t].pc = "cache_write"
    /\ cache_ret' = [op |-> "set", key |-> <<>>, ret |-> Raised("CacheError")]
    /\ task' = [task EXCEPT ![t].pc = "count_upstream"]
    /\ UNCHANGED <<cache, lru, links, cache_stats, proxyVars, now, upstreamVars, serverVars, callers, held>>

\* lines 197-212
CountUpstream(t) ==
    /\ task[t].pc = "count_upstream"
    /\ proxy_stats' = Bump(proxy_stats, "upstream_queries", 1)
    /\ task' = [task EXCEPT ![t] =
                  [@ EXCEPT !.pc = "idle", !.ret = task[t].outcome, !.outcome = RetNone]]
    /\ UNCHANGED <<rate_limiter, now, cacheVars, upstreamVars, serverVars, callers, held>>

ExceptThenLookup(t) ==
    /\ task[t].pc = "except"
    /\ proxy_stats' = Bump(proxy_stats, ExceptCounter(task[t].outcome.error), 1)
    /\ task' = [task EXCEPT ![t] = [@ EXCEPT !.pc = "try_cache", !.outcome = RetNone]]
    /\ UNCHANGED <<rate_limiter, now, cacheVars, upstreamVars, serverVars, callers, held>>
\* the except clauses, lines 214-265
Except(t) ==
    /\ task[t].pc = "except"
    /\ LET e == task[t].outcome.error IN
       /\ proxy_stats' = Bump(proxy_stats, ExceptCounter(e), 1)
       /\ task' = [task EXCEPT ![t] =
                     [@ EXCEPT !.pc = "idle", !.ret = Raised(ExceptRaises(e)),
                               !.outcome = RetNone]]
    /\ UNCHANGED <<rate_limiter, now, cacheVars, upstreamVars, serverVars, callers, held>>

\* what a thread inside resolve does next
ResolveStepWith(t, answers, errors) ==
    \/ CountQuery(t)
    \/ TryCache(t)
    \/ CountHit(t)
    \/ CountMiss(t)
    \/ QueryUpstream(t)
    \/ HttpStart(t)
    \/ HttpFinish(t, answers, errors)
    \/ Record(t)
    \/ CacheWrite(t)
    \/ CountUpstream(t)
    \/ Except(t)

ResolveStep(t, answers) == ResolveStepWith(t, answers, ResolveErrors)

\* the one thread that handles the requests when they come one at a time
MainThread == CHOOSE t \in Tasks : \A u \in Tasks : t <= u

\* requests handled one at a time, with a cache whose get and set may raise
FaultyResolve(t) ==
    /\ \A u \in Tasks : task[u].pc = "idle"
    /\ Resolve(t, ResolveArgs)

FaultyNext ==
    \/ FaultyResolve(MainThread)
    \/ ResolveStep(MainThread, ResolveAnswers)
    \/ TryCacheRaises(MainThread)
    \/ CacheWriteRaises(MainThread)
    \/ Tick

\* resolve one call at a time, next to direct calls of DNSCacheService.set
StoreAnswers == { <<[data |-> "ip1", TTL |-> 0]>>, <<[data |-> "ip1", TTL |-> 1]>> }

StoreTtls == {0, 1}

DirectSet ==
    /\ \A u \in Tasks : task[u].pc = "idle"
    /\ OpsDone < MaxOps
    /\ \E q \in UpstreamQueries, a \in SetAnswers, ttl \in StoreTtls :
          CacheApply("set", <<>>, CacheSet(CacheVal, cache_stats,
                              Response(q[1], q[2], a, ttl, "upstream"), now))
    /\ UNCHANGED <<now, upstreamVars, task, proxyVars, serverVars, callers, held>>

StoreNext ==
    \/ FaultyResolve(MainThread)
    \/ ResolveStep(MainThread, StoreAnswers)
    \/ DirectSet
    \/ Tick

\* request threads call resolve concurrently
ProxyNext ==
    \/ \E t \in Tasks : Resolve(t, ResolveArgs)
    \/ \E t \in Tasks : ResolveStep(t, ResolveAnswers)
    \/ Tick

\* requests are handled one at a time: resolve is called only when no call
\* is in progress
SequentialArgs ==
    ResolveArgs \cup
    { [query_name |-> "b.com", query_type |-> "A", client_ip |-> "10.0.0.1",
       client_port |-> 53000, packet_size |-> 40] }
SequentialAnswers ==
    ResolveAnswers \cup { <<>>, <<[data |-> "ip1", TTL |-> 0]>> }

SequentialResolve(t) ==
    /\ \A u \in Tasks : task[u].pc = "idle"
    /\ Resolve(t, SequentialArgs)

SequentialNext ==
    \/ SequentialResolve(MainThread)
    \/ ResolveStep(MainThread, SequentialAnswers)
    \/ Tick

----------------------------------------------------------------------------
(* DNSServer (main.py): one handler thread per datagram.  A handler parses *)
(* the packet, calls resolve and sends at most one reply.                  *)

\* header.rcode values that main.py writes
NOERROR == 0
SERVFAIL == 2
NXDOMAIN == 3

\* received datagrams: what DNSRecord.parse makes of the bytes, the question,
\* the sender and len(data)
Client == <<"10.0.0.1", 53000>>
Datagrams ==
    { [parse |-> "DNSError", qname |-> "", qtype |-> "", address |-> Client, size |-> 12],
      [parse |-> "ok", qname |-> "a.com", qtype |-> "A", address |-> Client, size |-> 40],
      [parse |-> "ok", qname |-> "nx.com", qtype |-> "A", address |-> Client, size |-> 40] }
NoDatagram == [parse |-> "none", qname |-> "", qtype |-> "", address |-> <<"", 0>>, size |-> 0]

\* the JSON body upstream answers with: nx.com does not exist
DohBodies(q) ==
    IF q[1] = "nx.com"
    THEN { [Status |-> 3, Answer |-> <<>>] }
    ELSE { [Status |-> 0, Answer |-> <<[data |-> "ip1", TTL |-> 1]>>] }

\* _parse_response reads data.get('Answer', []) and nothing else of the body
BodyAnswers(q) == { b.Answer : b \in DohBodies(q) }

\* the HTTP errors of upstream; its 4xx is 404, reason "Not Found"
ServerErrors == HttpErrors

\* "NXDOMAIN" in str(error) or "not found" in str(error).lower(): of the
\* errors that reach the handler, only "HTTP 404 error from upstream: Not Found"
MentionsNotFound(e) == e = "UpstreamServiceError4xx"

\* _build_error_response: the rcode of the error reply
BuildErrorResponse(e) == IF MentionsNotFound(e) THEN NXDOMAIN ELSE SERVFAIL

\* _build_dns_response: always NOERROR, one record per answer
BuildDnsResponse(r) == [rcode |-> NOERROR, answers |-> Len(r.answers)]

\* what pack() and sendto() may do
PackOutcomes == {"ok", "DNSError"}
SendOutcomes == {"ok", "OSError"}

IdleHandler == [pc |-> "idle", datagram |-> NoDatagram, replies |-> <<>>]

ServerInit ==
    /\ server = [t \in Tasks |-> IdleHandler]
    /\ lifecycle = "running"

\* _handle_dns_request, lines 113-131: parse, then call resolve
Receive(t) ==
    /\ lifecycle = "running"
    /\ server[t].pc \in {"idle", "done"}
    /\ \A u \in Tasks : task[u].pc = "idle"
    /\ \E d \in Datagrams :
         IF d.parse = "DNSError"
         THEN /\ server' = [server EXCEPT ![t] =
                             [pc |-> "done", datagram |-> d, replies |-> <<>>]]
              /\ UNCHANGED <<task, proxyVars, now, cacheVars, upstreamVars>>
         ELSE /\ StartResolve(t, { [query_name |-> d.qname, query_type |-> d.qtype,
                                    client_ip |-> d.address[1],
                                    client_port |-> d.address[2],
                                    packet_size |-> d.size] })
              /\ server' = [server EXCEPT ![t] =
                             [pc |-> "resolve", datagram |-> d, replies |-> <<>>]]
    /\ UNCHANGED <<lifecycle, callers, held>>

\* the except clause of lines 145-151: build the error reply and send it;
\* a failure to send it is swallowed
ErrorReply(d, e, send) ==
    IF send = "ok"
    THEN << [rcode |-> BuildErrorResponse(e), answers |-> 0, to |-> d.address] >>
    ELSE << >>

\* _handle_dns_request, lines 133-156: resolve has returned or raised
Respond(t, packs, sends) ==
    /\ server[t].pc = "resolve"
    /\ task[t].pc = "idle"
    /\ \E pack \in packs, send \in sends, esend \in sends :
         LET d   == server[t].datagram
             ret == task[t].ret
             replies ==
                 IF ret.kind = "response"
                 THEN IF pack = "DNSError"
                      THEN << >>
                      ELSE IF send = "ok"
                      THEN LET p == BuildDnsResponse(ret.response) IN
                           << [rcode |-> p.rcode, answers |-> p.answers, to |-> d.address] >>
                      ELSE ErrorReply(d, send, esend)
                 ELSE ErrorReply(d, ret.error, esend)
         IN  server' = [server EXCEPT ![t] = [@ EXCEPT !.pc = "done", !.replies = replies]]
    /\ UNCHANGED <<task, proxyVars, now, cacheVars, upstreamVars, lifecycle, callers, held>>

\* datagrams handled one at a time
ServerNext ==
    \/ Receive(MainThread)
    \/ ResolveStepWith(MainThread, BodyAnswers(task[MainThread].q), ServerErrors)
    \/ Respond(MainThread, PackOutcomes, SendOutcomes)
    \/ Tick

----------------------------------------------------------------------------
(* DNSServer.shutdown, called from the signal handler while handler threads *)
(* (daemon threads, never joined) may be running.                           *)

\* a dict after .clear()
Cleared == [f \in {} |-> 0]

\* main.py shutdown, lines 250-262: running = False, shutdown_event.set(),
\* udp_socket.close()
CloseSocket ==
    /\ lifecycle = "running"
    /\ lifecycle' = "stopping"
    /\ UNCHANGED <<server, task, proxyVars, now, cacheVars, upstreamVars, callers, held>>

\* main.py shutdown, lines 264-271: dns_service.shutdown() expires and clears
\* the cache and its statistics, resets the circuit breaker and clears the
\* upstream statistics, clears the service statistics and the rate limiter
ServiceShutdown ==
    /\ lifecycle = "stopping"
    /\ lifecycle' = "down"
    /\ cache' = << >> /\ lru' = << >> /\ links' = << >>
    /\ cache_stats' = Cleared
    /\ cache_ret' = [op |-> "shutdown", key |-> <<>>, ret |-> RetNone]
    /\ upstream_service' = ResetCircuitBreakerModel(upstream_service)
    /\ upstream_stats' = Cleared
    /\ event' = Event("reset")
    /\ proxy_stats' = Cleared
    /\ rate_limiter' = InitializeRateLimiter
    /\ UNCHANGED <<server, task, now, http_calls, callers, held>>

\* sendto on a closed socket raises OSError
SocketSends == IF lifecycle = "running" THEN {"ok"} ELSE {"OSError"}

\* a handler thread runs until the process exits after shutdown has returned
HandlerStep(t) ==
    /\ lifecycle # "down"
    /\ \/ ResolveStepWith(t, BodyAnswers(task[t].q), ResolveErrors)
       \/ Respond(t, {"ok"}, SocketSends)

ShutdownNext ==
    \/ Receive(MainThread)
    \/ HandlerStep(MainThread)
    \/ CloseSocket
    \/ ServiceShutdown
    \/ Tick

----------------------------------------------------------------------------
(* _check_rate_limit as a function of the limiter dict, the client and the *)
(* time.  The dict that _initialize_rate_limiter builds is empty and the   *)
(* method returns at once on it, so the dict is drawn already holding an   *)
(* entry.                                                                  *)

LimiterClients == {"10.0.0.1", "10.0.0.2"}
SeededLimiters == { [x \in {c} |-> [window |-> 0, count |-> 0]] : c \in LimiterClients }

LimiterInit ==
    /\ CacheInit /\ UpstreamInit /\ ServerInit
    /\ proxy_stats = ZeroProxyStats
    /\ rate_limiter \in SeededLimiters

RaisedRateLimit(r) ==
    [kind |-> "raise", error |-> "RateLimitExceededError", retry_after |-> r.retry_after]

CheckRateLimitCall(t) ==
    /\ \E c \in LimiterClients :
         LET r == CheckRateLimit(rate_limiter, c, now) IN
         /\ rate_limiter' = r.rl
         /\ task' = [task EXCEPT ![t] =
                       [IdleTask EXCEPT !.caller = "_check_rate_limit",
                                        !.client = c,
                                        !.ret = IF r.raise THEN RaisedRateLimit(r)
                                                ELSE RetNone]]
    /\ UNCHANGED <<proxy_stats, now, cacheVars, upstreamVars, serverVars, callers, held>>

\* time passes, into the next wall-clock minute
MinuteTick ==
    /\ now < Secs(WindowSeconds) + Slack
    /\ now' = now + 1
    /\ UNCHANGED <<cacheVars, upstreamVars, task, proxyVars, serverVars, callers, held>>

\* resolve one call at a time, starting from the limiter dict of __init__ or
\* from a dict that already holds an entry (with which the limiter is active)
AdmissionInit ==
    /\ CacheInit /\ UpstreamInit /\ ServerInit
    /\ proxy_stats = ZeroProxyStats
    /\ rate_limiter \in {InitializeRateLimiter} \cup SeededLimiters

\* resolve, lines 150-156, by several threads for one client.  Nothing is
\* locked around _check_rate_limit, so a thread can be preempted between the
\* test of the count (line 394) and its increment (line 404).
RaceClient == "10.0.0.1"

RacePasses ==
    proxy_stats.total_queries
    + Cardinality({t \in Tasks : task[t].pc \in {"rl_checked", "rl_passed"}})

\* lines 150-151 and 375-401: the limiter is skipped when the dict is falsy;
\* else the client's entry is created or reset and the count is tested
RaceCheck(t) ==
    /\ task[t].pc = "idle"
    /\ RacePasses < RateLimitRequestsPerMinute + 1
    /\ LET tk == [IdleTask EXCEPT !.caller = "resolve", !.client = RaceClient]
           w  == WindowStart(now)
       IN  IF ~Truthy(rate_limiter)
           THEN /\ task' = [task EXCEPT ![t] = [tk EXCEPT !.pc = "rl_passed"]]
                /\ UNCHANGED rate_limiter
           ELSE LET rl1 == IF RaceClient \in DOMAIN rate_limiter THEN rate_limiter
                           ELSE [x \in DOMAIN rate_limiter \cup {RaceClient} |->
                                   IF x = RaceClient THEN [window |-> w, count |-> 0]
                                   ELSE rate_limiter[x]]
                    rl2 == IF rl1[RaceClient].window < w
                           THEN [rl1 EXCEPT ![RaceClient] = [window |-> w, count |-> 0]]
                           ELSE rl1
                IN  /\ rate_limiter' = rl2
                    /\ task' = [task EXCEPT ![t] =
                                  IF rl2[RaceClient].count >= RateLimitRequestsPerMinute
                                  THEN [tk EXCEPT !.ret = Raised("RateLimitExceededError")]
                                  ELSE [tk EXCEPT !.pc = "rl_checked"]]
    /\ UNCHANGED <<proxy_stats, now, cacheVars, upstreamVars, serverVars, callers, held>>

\* line 404: client_data["count"] += 1
RaceIncrement(t) ==
    /\ task[t].pc = "rl_checked"
    /\ rate_limiter' = [rate_limiter EXCEPT ![RaceClient].count = @ + 1]
    /\ task' = [task EXCEPT ![t] = [@ EXCEPT !.pc = "rl_passed"]]
    /\ UNCHANGED <<proxy_stats, now, cacheVars, upstreamVars, serverVars, callers, held>>

\* lines 155-156: the admitted request is counted (the rest of resolve is
\* left out here)
RaceCountQuery(t) ==
    /\ task[t].pc = "rl_passed"
    /\ proxy_stats' = Bump(proxy_stats, "total_queries", 1)
    /\ task' = [task EXCEPT ![t] = IdleTask]
    /\ UNCHANGED <<rate_limiter, now, cacheVars, upstreamVars, serverVars, callers, held>>

RaceNext ==
    \/ \E t \in Tasks : RaceCheck(t)
    \/ \E t \in Tasks : RaceIncrement(t)
    \/ \E t \in Tasks : RaceCountQuery(t)
    \/ MinuteTick

\* resolve called with arguments that DNSQuery.validate rejects as well: an
\* unsupported type, a packet larger than 512 bytes
InvalidArgs ==
    { [query_name |-> "a.com", query_type |-> "BOGUS", client_ip |-> "10.0.0.1",
       client_port |-> 53000, packet_size |-> 40],
      [query_name |-> "a.com", query_type |-> "A", client_ip |-> "10.0.0.1",
       client_port |-> 53000, packet_size |-> 513] }

AnyResolve(t) ==
    /\ \A u \in Tasks : task[u].pc = "idle"
    /\ Resolve(t, ResolveArgs \cup InvalidArgs)

FrameNext ==
    \/ AnyResolve(MainThread)
    \/ ResolveStep(MainThread, ResolveAnswers)
    \/ Tick

AdmissionNext ==
    \/ FaultyResolve(MainThread)
    \/ ResolveStep(MainThread, ResolveAnswers)
    \/ Tick

\* _parse_response on the Answer lists of DoH bodies: entries without a TTL
\* (or with one that is not an int), with a negative TTL, with TTL 0 and more
MaxAnswers == 3
AnswerTtls == {NoTtl, -2, 0, 1, DefaultTtl + 1}
RECURSIVE AnswerLists(_)
AnswerLists(n) ==
    IF n = 0 THEN { <<>> }
    ELSE LET shorter == AnswerLists(n - 1) IN
         shorter \cup { Append(l, [data |-> "ip1", TTL |-> ttl]) :
                           l \in {x \in shorter : Len(x) = n - 1}, ttl \in AnswerTtls }

ParseResponseCall(t) ==
    /\ \E q \in UpstreamQueries, answers \in AnswerLists(MaxAnswers) :
         task' = [task EXCEPT ![t] =
                    [IdleTask EXCEPT !.caller = "_parse_response",
                                     !.q = q,
                                     !.ret = RetResponse(ParseResponse(q, answers))]]
    /\ UNCHANGED <<proxyVars, now, cacheVars, upstreamVars, serverVars, callers, held>>

ParseNext == ParseResponseCall(MainThread)

LimiterNext ==
    \/ CheckRateLimitCall(MainThread)
    \/ MinuteTick

----------------------------------------------------------------------------
(* The three service locks: DNSProxyService._lock (statistics),            *)
(* DNSCacheService._lock and UpstreamDoHService._lock.  Every operation is *)
(* followed through its `with self._lock:` statements; a thread acquires   *)
(* the lock in one step (waiting while another thread holds it) and runs   *)
(* the body and releases the lock in another.  Of what the bodies compute  *)
(* only the circuit breaker is kept: the counters decide no branch, except *)
(* that a `+= 1` raises KeyError once shutdown has cleared them, so a body *)
(* may end normally or by raising.                                         *)

LockNames == {"proxy", "cache", "upstream"}

\* A `with` statement at position pc: "with" takes the lock, runs the body
\* and releases it; "outer" takes the lock and goes on to the statements
\* nested in it; "exit" is the end of an "outer" statement.

\* DNSProxyService.resolve
ResolveBlocks ==
    { [pc |-> "count_query",    kind |-> "with", lock |-> "proxy", next |-> {"try_cache", "except"}],
      [pc |-> "try_cache",      kind |-> "with", lock |-> "cache", next |-> {"hit", "miss"}],
      [pc |-> "hit",            kind |-> "with", lock |-> "proxy", next |-> {"idle", "except"}],
      [pc |-> "miss",           kind |-> "with", lock |-> "proxy", next |-> {"upstream", "except"}],
      [pc |-> "cache_write",    kind |-> "with", lock |-> "cache", next |-> {"count_upstream"}],
      [pc |-> "count_upstream", kind |-> "with", lock |-> "proxy", next |-> {"idle", "except"}],
      [pc |-> "except",         kind |-> "with", lock |-> "proxy", next |-> {"idle"}] }

\* UpstreamDoHService.query, _execute_with_retries, _execute_single_request:
\* admission, the response-time counter after response.read(), and the two
\* sections that record the outcome of an attempt
QueryBlocksHeld ==
    { [pc |-> "upstream",       kind |-> "outer", lock |-> "upstream", next |-> {"attempt", "except"}],
      [pc |-> "response_time",  kind |-> "with", lock |-> "upstream", next |-> {"record_success", "record_failure"}],
      [pc |-> "record_success", kind |-> "with", lock |-> "upstream", next |-> {"return", "record_failure"}],
      [pc |-> "record_failure", kind |-> "with", lock |-> "upstream", next |-> {"retry", "except"}] }
QueryBlocks ==
    { [pc |-> "upstream",       kind |-> "with", lock |-> "upstream", next |-> {"attempt", "except"}],
      [pc |-> "response_time",  kind |-> "with", lock |-> "upstream", next |-> {"record_success", "record_failure"}],
      [pc |-> "record_success", kind |-> "with", lock |-> "upstream", next |-> {"return", "record_failure"}],
      [pc |-> "record_failure", kind |-> "with", lock |-> "upstream", next |-> {"retry", "except"}] }

\* DNSProxyService.get_stats: the cache's get_stats and the upstream's
\* get_health_status are called inside the statistics lock
GetStatsBlocks ==
    { [pc |-> "get_stats",         kind |-> "outer", lock |-> "proxy",    next |-> {"cache_get_stats"}],
      [pc |-> "cache_get_stats",   kind |-> "with",  lock |-> "cache",    next |-> {"get_health_status"}],
      [pc |-> "get_health_status", kind |-> "with",  lock |-> "upstream", next |-> {"get_stats_return"}],
      [pc |-> "get_stats_return",  kind |-> "exit",  lock |-> "proxy",    next |-> {"idle"}] }

\* DNSProxyService.reset_stats: the components are reset after the
\* statistics lock is released
ResetStatsBlocksNested ==
    { [pc |-> "reset_stats",          kind |-> "outer", lock |-> "cache",    next |-> {"cache_reset_stats"}],
      [pc |-> "cache_reset_stats",    kind |-> "with",  lock |-> "proxy",    next |-> {"upstream_reset_stats"}],
      [pc |-> "upstream_reset_stats", kind |-> "exit",  lock |-> "cache",    next |-> {"idle"}] }
ResetStatsBlocks ==
    { [pc |-> "reset_stats",          kind |-> "with", lock |-> "proxy",    next |-> {"cache_reset_stats"}],
      [pc |-> "cache_reset_stats",    kind |-> "with", lock |-> "cache",    next |-> {"upstream_reset_stats"}],
      [pc |-> "upstream_reset_stats", kind |-> "with", lock |-> "upstream", next |-> {"idle"}] }

\* DNSProxyService.reset_circuit_breaker -> UpstreamDoHService.reset_circuit_breaker
ResetCircuitBreakerBlocks ==
    { [pc |-> "reset_circuit_breaker", kind |-> "with", lock |-> "upstream", next |-> {"idle"}] }

\* DNSProxyService.shutdown: final cache statistics, len(cache_service),
\* cleanup_cache (cleanup_expired, len), the cache's shutdown, the final
\* health status, the upstream's shutdown, the clearing of the statistics
ShutdownBlocks ==
    { [pc |-> "shutdown",          kind |-> "with", lock |-> "cache",    next |-> {"cache_len"}],
      [pc |-> "cache_len",         kind |-> "with", lock |-> "cache",    next |-> {"cleanup_expired"}],
      [pc |-> "cleanup_expired",   kind |-> "with", lock |-> "cache",    next |-> {"remaining"}],
      [pc |-> "remaining",         kind |-> "with", lock |-> "cache",    next |-> {"cache_shutdown"}],
      [pc |-> "cache_shutdown",    kind |-> "with", lock |-> "cache",    next |-> {"final_health"}],
      [pc |-> "final_health",      kind |-> "with", lock |-> "upstream", next |-> {"upstream_shutdown"}],
      [pc |-> "upstream_shutdown", kind |-> "with", lock |-> "upstream", next |-> {"clear_stats"}],
      [pc |-> "clear_stats",       kind |-> "with", lock |-> "proxy",    next |-> {"idle"}] }

Blocks ==
    ResolveBlocks \cup QueryBlocks \cup GetStatsBlocks \cup ResetStatsBlocks
    \cup ResetCircuitBreakerBlocks \cup ShutdownBlocks

IsBlock(pc) == \E b \in Blocks : b.pc = pc
BlockAt(pc) == CHOOSE b \in Blocks : b.pc = pc

\* the sections whose body calls a method of UpstreamService that writes the
\* circuit-breaker fields
CircuitBlocks == {"upstream", "record_success", "record_failure",
                  "reset_circuit_breaker", "upstream_shutdown"}

Holds(h, t, l) == \E i \in 1..Len(h[t]) : h[t][i] = l

\* RLock.acquire does not block: the lock is free, or the caller owns it
Available(l, t) == \A u \in Tasks \ {t} : ~Holds(held, u, l)

\* t is inside the `with` statement it stands at
Inside(t) ==
    /\ IsBlock(task[t].pc)
    /\ BlockAt(task[t].pc).kind # "exit"
    /\ held[t] # << >>
    /\ held[t][Len(held[t])] = BlockAt(task[t].pc).lock

ReleaseInnermost(h, t) == [h EXCEPT ![t] = SubSeq(@, 1, Len(@) - 1)]

\* what the body of the section at pc leaves held
AfterBlock(h, t, pc) ==
    IF BlockAt(pc).kind = "with" THEN ReleaseInnermost(h, t) ELSE h

\* the calls a thread may make; resolve stops being called once enough HTTP
\* requests were made
MaxHttpCalls == FailureThreshold + 1
ServiceCalls == {"resolve", "get_stats", "reset_stats", "reset_circuit_breaker", "shutdown"}

\* resolve, lines 127-152, takes no lock: it goes on to count the query, or
\* into an except clause (validation, rate limit)
EntryPoints(call) ==
    IF call = "resolve" THEN {"count_query", "except"} ELSE {call}

\* the thread moves to position n; the locals of the retry loop are kept
\* while the thread is in the loop
MoveTo(tk, n) ==
    IF n = "idle" THEN IdleTask
    ELSE IF n \in {"attempt", "inflight", "response_time", "record_success",
                   "record_failure", "backoff"}
    THEN [tk EXCEPT !.pc = n]
    ELSE [IdleTask EXCEPT !.pc = n, !.caller = tk.caller]

Call(t) ==
    /\ task[t].pc = "idle"
    /\ \E call \in ServiceCalls : \E pc \in EntryPoints(call) :
         /\ call = "resolve" => http_calls < MaxHttpCalls
         /\ task' = [task EXCEPT ![t] = [IdleTask EXCEPT !.pc = pc, !.caller = call]]
    /\ UNCHANGED <<upstreamVars, held, now, cacheVars, proxyVars, serverVars, callers>>

\* `with self._lock:` is entered
EnterBlock(t) ==
    /\ IsBlock(task[t].pc)
    /\ BlockAt(task[t].pc).kind # "exit"
    /\ ~Inside(t)
    /\ Available(BlockAt(task[t].pc).lock, t)
    /\ held' = [held EXCEPT ![t] = Append(@, BlockAt(task[t].pc).lock)]
    /\ UNCHANGED <<upstreamVars, task, now, cacheVars, proxyVars, serverVars, callers>>

\* the body of a section that leaves the circuit breaker alone has run
LeaveBlock(t) ==
    /\ Inside(t)
    /\ task[t].pc \notin CircuitBlocks
    /\ \E n \in BlockAt(task[t].pc).next :
         task' = [task EXCEPT ![t] =
                    IF n = "record_failure"
                    THEN [@ EXCEPT !.pc = n, !.outcome = Raised("KeyError")]
                    ELSE MoveTo(@, n)]
    /\ held' = AfterBlock(held, t, task[t].pc)
    /\ UNCHANGED <<upstreamVars, now, cacheVars, proxyVars, serverVars, callers>>

\* the end of an "outer" statement
ExitBlock(t) ==
    /\ IsBlock(task[t].pc)
    /\ BlockAt(task[t].pc).kind = "exit"
    /\ held' = ReleaseInnermost(held, t)
    /\ \E n \in BlockAt(task[t].pc).next : task' = [task EXCEPT ![t] = MoveTo(@, n)]
    /\ UNCHANGED <<upstreamVars, now, cacheVars, proxyVars, serverVars, callers>>

\* query, lines 82-96: should_allow_request under the lock; the request is
\* refused (CircuitBreakerOpenError), or counted, which may raise
LockedAdmit(t) ==
    /\ task[t].pc = "upstream"
    /\ Inside(t)
    /\ LET r == ShouldAllowRequest(upstream_service, now) IN
       /\ upstream_service' = r.us
       /\ \E n \in (IF r.allow THEN BlockAt("upstream").next ELSE {"except"}) :
            task' = [task EXCEPT ![t] = MoveTo([@ EXCEPT !.attempt = 0], n)]
    /\ held' = AfterBlock(held, t, "upstream")
    /\ UNCHANGED <<upstream_stats, http_calls, event, now, cacheVars, proxyVars, serverVars, callers>>

\* what urlopen raises in the lock analysis: a retriable error and one that
\* is not
LockErrors == {"UpstreamTimeoutError", "UpstreamServiceError4xx"}

\* _execute_single_request: urlopen and response.read() end; with a body
\* read the thread goes on to count the response time, else to the except
\* clause of the retry loop
LockedHttpFinish(t) ==
    /\ task[t].pc = "inflight"
    /\ \/ task' = [task EXCEPT ![t].pc = "response_time"]
       \/ \E e \in LockErrors :
            task' = [task EXCEPT ![t].pc = "record_failure", ![t].outcome = Raised(e)]
    /\ UNCHANGED <<upstreamVars, held, now, cacheVars, proxyVars, serverVars, callers>>

\* _execute_with_retries, lines 130-134: record_success; the counter that
\* follows it may raise into the except clause of the loop
LockedRecordSuccess(t) ==
    /\ task[t].pc = "record_success"
    /\ Inside(t)
    /\ upstream_service' = RecordSuccess(upstream_service)
    /\ \E n \in BlockAt("record_success").next :
         task' = [task EXCEPT ![t] =
                    IF n = "return"
                    THEN MoveTo(@, "cache_write")
                    ELSE [@ EXCEPT !.pc = n, !.outcome = Raised("KeyError")]]
    /\ held' = AfterBlock(held, t, "record_success")
    /\ UNCHANGED <<upstream_stats, http_calls, event, now, cacheVars, proxyVars, serverVars, callers>>

\* _execute_with_retries, lines 136-165: record_failure, then the loop is
\* left (raise last_error) or the thread sleeps before the next attempt
LockedRecordFailure(t) ==
    /\ task[t].pc = "record_failure"
    /\ Inside(t)
    /\ upstream_service' = RecordFailure(upstream_service, now)
    /\ task' = [task EXCEPT ![t] =
                  IF StopRetrying(task[t].outcome.error, task[t].attempt)
                  THEN MoveTo(@, "except")
                  ELSE [@ EXCEPT !.pc = "backoff",
                                 !.wake_at = now + Secs(Backoff(task[t].attempt)),
                                 !.attempt = @ + 1,
                                 !.outcome = RetNone]]
    /\ held' = AfterBlock(held, t, "record_failure")
    /\ UNCHANGED <<upstream_stats, http_calls, event, now, cacheVars, proxyVars, serverVars, callers>>

\* UpstreamDoHService.reset_circuit_breaker (526-532) and shutdown (462-465)
LockedReset(t) ==
    /\ task[t].pc \in {"reset_circuit_breaker", "upstream_shutdown"}
    /\ Inside(t)
    /\ upstream_service' = ResetCircuitBreakerModel(upstream_service)
    /\ \E n \in BlockAt(task[t].pc).next : task' = [task EXCEPT ![t] = MoveTo(@, n)]
    /\ held' = AfterBlock(held, t, task[t].pc)
    /\ UNCHANGED <<upstream_stats, http_calls, event, now, cacheVars, proxyVars, serverVars, callers>>

LocksNext ==
    \/ \E t \in Tasks : Call(t)
    \/ \E t \in Tasks : EnterBlock(t)
    \/ \E t \in Tasks : LeaveBlock(t)
    \/ \E t \in Tasks : ExitBlock(t)
    \/ \E t \in Tasks : LockedAdmit(t)
    \/ \E t \in Tasks : HttpStart(t)
    \/ \E t \in Tasks : LockedHttpFinish(t)
    \/ \E t \in Tasks : LockedRecordSuccess(t)
    \/ \E t \in Tasks : LockedRecordFailure(t)
    \/ \E t \in Tasks : LockedReset(t)
    \/ SleepTick

----------------------------------------------------------------------------
(* Specifications *)

vars == <<now, cache, lru, links, cache_stats, cache_ret,
          upstream_service, upstream_stats, http_calls, task, event,
          rate_limiter, proxy_stats, server, lifecycle, callers, held>>

Init == CacheInit /\ UpstreamInit /\ ProxyInit /\ ServerInit

CacheNext ==
    /\ Get \/ Set \/ Delete \/ Clear \/ CleanupExpired \/ Tick
    /\ UNCHANGED <<upstreamVars, task, proxyVars, serverVars, callers, held>>

SpecProxy == Init /\ [][ProxyNext]_vars

SpecSequential == Init /\ [][SequentialNext]_vars

SpecFaulty == Init /\ [][FaultyNext]_vars

SpecStore == Init /\ [][StoreNext]_vars

SpecServer == Init /\ [][ServerNext]_vars

SpecLimiter == LimiterInit /\ [][LimiterNext]_vars

SpecShutdown == Init /\ [][ShutdownNext]_vars

SpecAllFailures == Init /\ [][AllFailuresNext]_vars

SpecAdmission == AdmissionInit /\ [][AdmissionNext]_vars

SpecCache == Init /\ [][CacheNext]_vars

SpecThreads == Init /\ [][ThreadsNext]_vars

SpecLru == Init /\ [][LruNext]_vars

SpecParse == Init /\ [][ParseNext]_vars

SpecFrame == AdmissionInit /\ [][FrameNext]_vars

SpecRace == AdmissionInit /\ [][RaceNext]_vars

SpecLocks == Init /\ [][LocksNext]_vars

\* request threads are scheduled, a query arrives whenever a thread is free,
\* urlopen returns (it is called with a timeout) and time passes
FairRecovery ==
    /\ Init /\ [][RecoveryNext]_vars
    /\ WF_vars(RecoveryTick)
    /\ \A t \in Tasks : WF_vars(RecoveryQuery(t))
    /\ \A t \in Tasks : WF_vars(RecoveryHttpStart(t))
    /\ \A t \in Tasks : WF_vars(HttpFinish(t, UpstreamAnswers, RecoveryErrors))
    /\ \A t \in Tasks : WF_vars(RecoveryRecord(t))

SpecUpstream == Init /\ [][UpstreamNext]_vars

\* every thread inside query is scheduled, urlopen returns (it is called with
\* a timeout) and time passes
FairUpstream ==
    /\ Init /\ [][RetryNext]_vars
    /\ WF_vars(SleepTick)
    /\ \A t \in Tasks : WF_vars(HttpStart(t))
    /\ \A t \in Tasks : WF_vars(HttpFinish(t, UpstreamAnswers, HttpErrors))
    /\ \A t \in Tasks : WF_vars(Record(t))

----------------------------------------------------------------------------
(* Claims about the cache service, checked under SpecCache *)

\* a get of key k completes in this step
GetStep(k) ==
    /\ cache_ret'.op = "get" /\ cache_ret'.key = k
    /\ cache_stats'.hits + cache_stats'.misses = cache_stats.hits + cache_stats.misses + 1

GetHit == cache_stats'.hits = cache_stats.hits + 1

\* C1: after any sequence of set, get, delete, cleanup_expired and clear, the
\* cache never holds more than max_size entries (counting also the items the
\* TTLCache has not yet purged).
C1_SizeBounded ==
    /\ Cardinality(DOMAIN cache) <= MaxSize
    /\ TtlLen(CacheVal, now) <= MaxSize

\* a full cache after more sets than max_size, nothing deleted or expired
C1_Witness ==
    /\ Cardinality(DOMAIN cache) = MaxSize
    /\ TtlLen(CacheVal, now) = MaxSize
    /\ cache_stats.sets = MaxSize + 1
    /\ cache_stats.evicted >= 1
    /\ cache_stats.deletes = 0 /\ cache_stats.expired = 0

\* C6 (as claimed): a get of a key made before the ttl of its stored entry has
\* elapsed is a hit, the entry not having been deleted, cleared or evicted.
C6_HitWithinTtl ==
    [][\A k \in DOMAIN cache :
          (GetStep(k) /\ now < cache[k].expires_at) => GetHit]_vars

\* C7 (as claimed): the first get of a stored key at or after stored_at + ttl
\* is a miss, leaves the key absent, and adds exactly one to expired and to misses.
C7_ExpiredCounted ==
    [][\A k \in DOMAIN cache :
          (GetStep(k) /\ now >= cache[k].expires_at) =>
              /\ cache_ret'.ret = RetNone
              /\ ~TtlContains([store |-> cache', lru |-> lru', links |-> links'], k, now')
              /\ cache_stats'.expired = cache_stats.expired + 1
              /\ cache_stats'.misses = cache_stats.misses + 1]_vars

\* C8: a get hit returns upstream_source = "cache" and a ttl equal to the whole
\* seconds left until expires_at at the lookup, between 0 and the stored ttl.
C8_HitTtlIsRemaining ==
    [][GetHit =>
          /\ cache_ret'.op = "get"
          /\ cache_ret'.key \in DOMAIN cache
          /\ cache_ret'.ret.kind = "response"
          /\ LET e == cache[cache_ret'.key]
                 r == cache_ret'.ret.response
             IN  /\ r.upstream_source = "cache"
                 /\ r.ttl = Max(0, IntSeconds(e.expires_at - now))
                 /\ 0 <= r.ttl
                 /\ r.ttl <= IntSeconds(e.expires_at - e.stored_at)]_vars

\* a hit on an entry part of whose lifetime has passed: the ttl returned is
\* smaller than the ttl stored
C8_Witness ==
    /\ cache_ret.op = "get"
    /\ cache_ret.ret.kind = "response"
    /\ cache_ret.key \in DOMAIN cache
    /\ cache[cache_ret.key].last_accessed = now
    /\ now > cache[cache_ret.key].stored_at
    /\ cache_ret.ret.response.ttl < GetTtlSeconds(cache[cache_ret.key])

----------------------------------------------------------------------------
(* Claims about the circuit breaker (SpecUpstream) *)

\* a call of UpstreamDoHService.query reaches its admission check in this step
AdmitStep == QueriesMade' = QueriesMade + 1

\* the failure count is at the threshold and less than circuit_breaker_timeout
\* has passed since the circuit opened
CircuitTripped(us, t) ==
    /\ us.consecutive_failures >= FailureThreshold
    /\ us.circuit_breaker_open_time # NoTime
    /\ t < us.circuit_breaker_open_time + Secs(CircuitBreakerTimeout)

BlockedCaller(t) ==
    /\ task[t].pc = "idle"
    /\ task'[t].pc = "idle"
    /\ task'[t].ret = Raised("CircuitBreakerOpenError")

\* C2: when the consecutive failures reach failure_threshold the circuit opens
\* with the open time set to that moment, and a query made before
\* circuit_breaker_timeout has elapsed (no success or reset in between) raises
\* CircuitBreakerOpenError without any HTTP call, adds one to
\* circuit_breaker_blocks and leaves total_requests unchanged.
C2_OpenCircuitBlocks ==
    [][ /\ ( /\ upstream_service.consecutive_failures < FailureThreshold
             /\ upstream_service'.consecutive_failures >= FailureThreshold )
           => /\ upstream_service'.circuit_breaker_state = "OPEN"
              /\ upstream_service'.circuit_breaker_open_time = now
        /\ (AdmitStep /\ CircuitTripped(upstream_service, now))
           => /\ \E t \in Tasks : BlockedCaller(t)
              /\ http_calls' = http_calls
              /\ upstream_stats'.circuit_breaker_blocks
                    = upstream_stats.circuit_breaker_blocks + 1
              /\ upstream_stats'.total_requests = upstream_stats.total_requests
      ]_vars

C2_Witness ==
    /\ event.op = "admit"
    /\ CircuitTripped(event.before, now)
    /\ upstream_stats.circuit_breaker_blocks = 1
    /\ upstream_stats.failed_requests = FailureThreshold
    /\ upstream_stats.successful_requests = 0
    /\ \E t \in Tasks : task[t].pc = "idle" /\ task[t].ret = Raised("CircuitBreakerOpenError")

\* C3: a failed attempt recorded while the circuit is HALF_OPEN puts it back
\* to OPEN and sets the open time to the time of that failure.
C3_HalfOpenFailureReopens ==
    [][ ( /\ upstream_service.circuit_breaker_state = "HALF_OPEN"
          /\ upstream_stats'.failed_requests = upstream_stats.failed_requests + 1 )
        => /\ upstream_service'.circuit_breaker_state = "OPEN"
           /\ upstream_service'.circuit_breaker_open_time = now
      ]_vars

\* C4: a success recorded while the circuit is HALF_OPEN closes it, zeroes the
\* consecutive failures and clears the open time; every recorded success
\* zeroes the consecutive failures.
C4_SuccessCloses ==
    [][ (upstream_stats'.successful_requests = upstream_stats.successful_requests + 1)
        => /\ upstream_service'.consecutive_failures = 0
           /\ upstream_service.circuit_breaker_state = "HALF_OPEN"
              => /\ upstream_service'.circuit_breaker_state = "CLOSED"
                 /\ upstream_service'.circuit_breaker_open_time = NoTime
      ]_vars

C4_Witness ==
    /\ event.op = "record_success"
    /\ event.before.circuit_breaker_state = "HALF_OPEN"
    /\ event.before.consecutive_failures >= FailureThreshold
    /\ upstream_service = ClosedCircuit
    /\ upstream_stats.successful_requests = 1

----------------------------------------------------------------------------
(* Claims about DNSProxyService.resolve (SpecProxy) *)

\* thread t performs resolve's cache lookup in this step
TryCacheStep(t) == task[t].pc = "try_cache" /\ task'[t].pc \in {"hit", "miss"}

\* C5: round trip through resolve.  The first resolve of a key goes upstream;
\* with resolve calls made one after the other, a later resolve whose cache
\* lookup comes less than T seconds after the answer of TTL T was stored
\* returns source=cache with ttl <= T and the same answers; one whose lookup
\* comes T or more seconds after is a miss (and so calls upstream again).
C5_RoundTrip ==
    [][ \A t \in Tasks : TryCacheStep(t) =>
          LET k == CreateCacheKey(task[t].q[1], task[t].q[2]) IN
          /\ (k \notin DOMAIN cache /\ cache_stats.sets = 0) => task'[t].pc = "miss"
          /\ k \in DOMAIN cache =>
               LET e == cache[k]
                   T == GetTtlSeconds(e)
               IN  IF now < e.stored_at + Secs(T)
                   THEN /\ task'[t].pc = "hit"
                        /\ task'[t].outcome.response.upstream_source = "cache"
                        /\ task'[t].outcome.response.ttl <= T
                        /\ task'[t].outcome.response.answers = e.answers
                   ELSE task'[t].pc = "miss"
      ]_vars

\* C9: total_queries = cache_hits + cache_misses whenever no resolve call is
\* in progress, and total_queries >= cache_hits + cache_misses in every state.
C9_QueriesAccounted ==
    /\ proxy_stats.total_queries >= proxy_stats.cache_hits + proxy_stats.cache_misses
    /\ (\A t \in Tasks : ~InResolve(t))
          => proxy_stats.total_queries = proxy_stats.cache_hits + proxy_stats.cache_misses

C9_Witness ==
    /\ \A t \in Tasks : ~InResolve(t)
    /\ proxy_stats.cache_hits >= 1
    /\ proxy_stats.cache_misses >= 1
    /\ proxy_stats.upstream_errors >= 1
    /\ proxy_stats.total_queries = proxy_stats.cache_hits + proxy_stats.cache_misses

\* a valid request of client c enters resolve in this step, with no other
\* resolve call in progress
SequentialRequest(t, c) ==
    /\ \A u \in Tasks : task[u].pc = "idle"
    /\ task'[t].pc # "idle"
    /\ task'[t].caller = "resolve"
    /\ task'[t].client = c
    /\ task'[t].outcome # Raised("ValueError")

\* C10: with rate limiting enabled and requests handled one at a time, once
\* rate_limit_requests_per_minute requests of a client have passed admission
\* in a wall-clock minute, every further request of that client in the same
\* minute raises RateLimitExceededError.  (10.0.0.1 is the only client whose
\* requests are valid, so total_queries counts its admitted requests.)
C10_RateLimitEnforced ==
    [][ \A t \in Tasks :
          ( /\ SequentialRequest(t, "10.0.0.1")
            /\ now < Secs(WindowSeconds)
            /\ proxy_stats.total_queries >= RateLimitRequestsPerMinute )
          => /\ task'[t].pc = "except"
             /\ task'[t].outcome = Raised("RateLimitExceededError")
      ]_vars

----------------------------------------------------------------------------
(* Claims about the retry loop (FairUpstream) *)

InQuery(t) == task[t].pc \in {"attempt", "backoff", "inflight", "record"}

\* C11: an admitted query makes at most retry_attempts + 1 HTTP attempts and
\* terminates: it returns the response of its first successful attempt, or
\* raises the error of its last failed attempt.
C11_QueryTerminates ==
    /\ [](\A t \in Tasks : InQuery(t) => task[t].attempt + 1 <= RetryAttempts + 1)
    /\ [](http_calls <= upstream_stats.total_requests * (RetryAttempts + 1))
    /\ [][ \A t \in Tasks :
             (task[t].pc = "record" /\ task'[t].pc # "record") =>
                IF task[t].outcome.kind = "response"
                THEN task'[t].pc = "idle" /\ task'[t].ret = task[t].outcome
                ELSE \/ task'[t].pc = "idle" /\ task'[t].ret = task[t].outcome
                     \/ /\ task'[t].pc = "backoff"
                        /\ task[t].attempt < RetryAttempts
                        /\ task'[t].attempt = task[t].attempt + 1
       ]_vars
    /\ \A t \in Tasks : InQuery(t) ~> (task[t].pc = "idle")

C11_Witness ==
    /\ upstream_stats.total_requests = 1
    /\ http_calls = RetryAttempts + 1
    /\ upstream_stats.failed_requests = RetryAttempts + 1
    /\ \E t \in Tasks : task[t].pc = "idle" /\ task[t].ret = Raised("UpstreamTimeoutError")

\* the calls so far were made one after the other (none is in progress) and
\* every upstream attempt timed out
OnlyTimeouts ==
    /\ \A t \in Tasks : task[t].pc = "idle"
    /\ upstream_stats.successful_requests = 0
    /\ upstream_stats.failed_requests = upstream_stats.timeout_errors

\* C12: from a CLOSED circuit with zero failures and whatever retry_attempts,
\* each of the first failure_threshold consecutive queries whose upstream
\* calls all time out attempts upstream; the next query, made within
\* circuit_breaker_timeout, fails with no HTTP call; the first query after
\* circuit_breaker_timeout attempts upstream again with the circuit HALF_OPEN.
C12_ThresholdQueriesThenOpen ==
    [][ (AdmitStep /\ OnlyTimeouts) =>
          /\ ( /\ upstream_stats.circuit_breaker_blocks = 0
               /\ upstream_stats.total_requests < FailureThreshold )
             => upstream_stats'.total_requests = upstream_stats.total_requests + 1
          /\ ( /\ upstream_stats.total_requests >= FailureThreshold
               /\ CircuitTripped(upstream_service, now) )
             => /\ upstream_stats'.circuit_breaker_blocks
                      = upstream_stats.circuit_breaker_blocks + 1
                /\ http_calls' = http_calls
          /\ ( /\ upstream_service.circuit_breaker_state = "OPEN"
               /\ now >= upstream_service.circuit_breaker_open_time
                           + Secs(CircuitBreakerTimeout) )
             => /\ upstream_stats'.total_requests = upstream_stats.total_requests + 1
                /\ upstream_service'.circuit_breaker_state = "HALF_OPEN"
      ]_vars

----------------------------------------------------------------------------
(* Claims about the paths through resolve (SpecSequential) *)

\* thread t takes a step of the cache-hit path: the lookup that finds an
\* entry, or the return that follows it
HitPathStep(t) ==
    \/ task[t].pc = "try_cache" /\ task'[t].pc = "hit"
    \/ task[t].pc = "hit" /\ task'[t] # task[t]

\* C13: when resolve's cache lookup finds an entry, the call returns it with
\* source=cache, makes no call to the upstream client and leaves the
\* circuit-breaker state as it is, also while the circuit is OPEN (it does
\* not raise CircuitBreakerOpenError).
C13_HitBypassesUpstream ==
    [][ \A t \in Tasks : HitPathStep(t) =>
          /\ UNCHANGED <<upstream_service, upstream_stats, http_calls, event>>
          /\ task'[t].pc = "hit" =>
                /\ task'[t].outcome.kind = "response"
                /\ task'[t].outcome.response.upstream_source = "cache"
          /\ task[t].pc = "hit" =>
                /\ task'[t].pc = "idle"
                /\ task'[t].ret = task[t].outcome
                /\ proxy_stats'.circuit_breaker_errors = proxy_stats.circuit_breaker_errors
                /\ proxy_stats'.upstream_queries = proxy_stats.upstream_queries
      ]_vars

\* the call that just returned was a cache hit, made while the circuit was OPEN
C13_Witness ==
    /\ \A t \in Tasks : task[t].pc = "idle"
    /\ upstream_service.circuit_breaker_state = "OPEN"
    /\ event.op = "record_failure"
    /\ cache_ret.op = "get"
    /\ cache_ret.ret.kind = "response"
    /\ proxy_stats.cache_hits = 1
    /\ \E t \in Tasks :
          /\ task[t].ret.kind = "response"
          /\ task[t].ret.response.upstream_source = "cache"

\* C14: a failure of the cache never fails the request.  If the cache get
\* raises, resolve goes on as on a miss (counts the miss and queries
\* upstream); if the cache set raises after a successful upstream call,
\* resolve still returns the upstream response.
C14_CacheFailuresSwallowed ==
    [][ \A t \in Tasks :
          /\ (task[t].pc = "try_cache" /\ task'[t] # task[t] /\ cache_ret'.ret.kind = "raise")
                => task'[t].pc = "miss"
          /\ (task[t].pc = "miss" /\ task'[t] # task[t])
                => /\ task'[t].pc = "upstream"
                   /\ proxy_stats'.cache_misses = proxy_stats.cache_misses + 1
          /\ (task[t].pc = "upstream" /\ task'[t] # task[t])
                => QueriesMade' = QueriesMade + 1
          /\ (task[t].pc = "cache_write" /\ task'[t] # task[t])
                => /\ task'[t].pc = "count_upstream"
                   /\ task'[t].outcome = task[t].outcome
          /\ (task[t].pc = "count_upstream" /\ task'[t] # task[t])
                => /\ task'[t].pc = "idle"
                   /\ task'[t].ret = task[t].outcome
                   /\ task'[t].ret.kind = "response"
                   /\ task'[t].ret.response.upstream_source = "upstream"
      ]_vars

\* the one call made so far had its cache get raise and its cache set raise,
\* and returned the upstream response
C14_Witness ==
    /\ \A t \in Tasks : task[t].pc = "idle"
    /\ proxy_stats.total_queries = 1
    /\ proxy_stats.cache_misses = 1
    /\ proxy_stats.upstream_queries = 1
    /\ cache_stats.misses = 0
    /\ cache_stats.sets = 0
    /\ cache_ret.op = "set"
    /\ cache_ret.ret.kind = "raise"
    /\ \E t \in Tasks :
          /\ task[t].ret.kind = "response"
          /\ task[t].ret.response.upstream_source = "upstream"
          /\ task[t].ret.response.ttl > 0

\* C22: no HTTP attempt to the upstream is started while the circuit is
\* OPEN; in particular the retry loop of a query issues no further attempt
\* once a failed attempt has opened the circuit.
C22_NoAttemptWhileOpen ==
    [][ http_calls' > http_calls
        => upstream_service.circuit_breaker_state # "OPEN" ]_vars

\* C23: apart from a manual reset, the only transition out of OPEN is to
\* HALF_OPEN, taken at an admission check at a time >= open time +
\* circuit_breaker_timeout; the circuit never goes from OPEN directly to
\* CLOSED, and CLOSED is entered from a non-CLOSED state only by a success
\* recorded in HALF_OPEN.
C23_OpenLeavesOnlyToHalfOpen ==
    [][ LET s1 == upstream_service.circuit_breaker_state
            s2 == upstream_service'.circuit_breaker_state
        IN  event'.op # "reset"
            => /\ (s1 = "OPEN" /\ s2 # "OPEN")
                  => /\ s2 = "HALF_OPEN"
                     /\ event'.op = "admit"
                     /\ now >= upstream_service.circuit_breaker_open_time
                                 + Secs(CircuitBreakerTimeout)
               /\ (s1 # "CLOSED" /\ s2 = "CLOSED")
                  => /\ s1 = "HALF_OPEN"
                     /\ event'.op = "record_success"
      ]_vars

\* C24: in every reachable state consecutive_failures >= 0; CLOSED implies
\* consecutive_failures < failure_threshold; OPEN implies consecutive_failures
\* >= failure_threshold and the open time is set; and the circuit goes from
\* CLOSED to OPEN only in a record_failure step that brings
\* consecutive_failures to at least failure_threshold.
C24_CircuitInvariant ==
    /\ [] /\ upstream_service.consecutive_failures >= 0
          /\ upstream_service.circuit_breaker_state = "CLOSED"
             => upstream_service.consecutive_failures < FailureThreshold
          /\ upstream_service.circuit_breaker_state = "OPEN"
             => /\ upstream_service.consecutive_failures >= FailureThreshold
                /\ upstream_service.circuit_breaker_open_time # NoTime
    /\ [][ ( /\ upstream_service.circuit_breaker_state = "CLOSED"
             /\ upstream_service'.circuit_breaker_state = "OPEN" )
           => /\ event'.op = "record_failure"
              /\ upstream_stats'.failed_requests = upstream_stats.failed_requests + 1
              /\ upstream_service'.consecutive_failures
                   = upstream_service.consecutive_failures + 1
              /\ upstream_service'.consecutive_failures >= FailureThreshold
       ]_vars

\* a recorded failure has just opened the closed circuit, and failures go on
\* being counted while it is open
C24_Witness ==
    /\ upstream_service.circuit_breaker_state = "OPEN"
    /\ upstream_service.consecutive_failures > FailureThreshold
    /\ event.op = "record_failure"
    /\ event.before.circuit_breaker_state = "OPEN"

\* the errors of an attempt after which the query gives up at once
TerminalErrors ==
    { SingleRequestRaises(f) : f \in {"http4xx", "bad_json", "invalid_response"} }

\* C25: when an attempt fails with a terminal error (a 4xx status, a JSON
\* parse failure, a response validation failure) the query makes no further
\* attempt and no backoff sleep and raises that error; only timeouts,
\* connection errors and 5xx statuses lead to another attempt.
C25_TerminalErrorsNotRetried ==
    [][ \A t \in Tasks :
          ( /\ task[t].pc = "record" /\ task'[t].pc # "record"
            /\ task[t].outcome.kind = "raise" )
          => LET e == task[t].outcome.error IN
             /\ e \in TerminalErrors
                => /\ task'[t].pc = "idle"
                   /\ task'[t].ret = Raised(e)
                   /\ http_calls' = http_calls
             /\ task'[t].pc = "backoff"
                => e \in { SingleRequestRaises(f) : f \in {"timeout", "connection", "http5xx"} }
      ]_vars

\* a query with retries left gave up after one attempt that ended in a 4xx
C25_Witness ==
    /\ RetryAttempts >= 1
    /\ upstream_stats.total_requests = 1
    /\ http_calls = 1
    /\ upstream_stats.service_errors = 1
    /\ \E t \in Tasks :
          /\ task[t].pc = "idle"
          /\ task[t].ret = Raised("UpstreamServiceError4xx")

----------------------------------------------------------------------------
(* Claims about what is stored (SpecStore) *)

\* responses with ttl <= 0 that set may be given
ZeroTtlResponses ==
    { Response(q[1], q[2], a, 0, "upstream") : q \in SetArgs, a \in SetAnswers }

\* C15: a response with ttl <= 0 is never stored.  In every reachable state
\* DNSCacheService.set of such a response leaves the cache contents and every
\* cache counter unchanged, and a resolve whose upstream answer has minimum
\* TTL 0 goes from the upstream call to its return without a cache write,
\* leaving the cache without an entry that a lookup of the key can see.
C15_ZeroTtlNotStored ==
    /\ [](\A resp \in ZeroTtlResponses :
            LET r == CacheSet(CacheVal, cache_stats, resp, now) IN
            r.c = CacheVal /\ r.stats = cache_stats)
    /\ [][ \A t \in Tasks :
             LET k == CreateCacheKey(task[t].q[1], task[t].q[2]) IN
             /\ ( /\ task[t].pc = "record" /\ task'[t].pc # "record"
                  /\ task[t].outcome.kind = "response"
                  /\ task[t].outcome.response.ttl <= 0 )
                => task'[t].pc = "count_upstream"
             /\ ( /\ task[t].pc = "count_upstream" /\ task'[t] # task[t]
                  /\ task[t].outcome.response.ttl <= 0 )
                => /\ UNCHANGED <<cache, lru, links, cache_stats>>
                   /\ ~TtlContains(CacheVal, k, now)
                   /\ task'[t].pc = "idle"
       ]_vars

\* a resolve has returned an upstream answer of TTL 0 and nothing was stored,
\* and the last cache call was a set that stored nothing
C15_Witness ==
    /\ cache_ret.op = "set"
    /\ cache_ret.ret = RetNone
    /\ cache_stats.sets = 0
    /\ cache = <<>>
    /\ proxy_stats.upstream_queries >= 1
    /\ \E t \in Tasks :
          /\ task[t].pc = "idle"
          /\ task[t].ret.kind = "response"
          /\ task[t].ret.response.upstream_source = "upstream"
          /\ task[t].ret.response.ttl = 0

\* C16: when upstream answers successfully with an empty Answer list, resolve
\* returns a response with zero answers and does not write it to the cache:
\* no cache entry holds an empty answer list, and no resolve answers from the
\* cache with zero answers (the identical query right after is a miss again).
C16_EmptyAnswerNotCached ==
    /\ \A k \in DOMAIN cache : cache[k].answers # <<>>
    /\ \A t \in Tasks :
          ( /\ task[t].pc = "idle"
            /\ task[t].ret.kind = "response"
            /\ task[t].ret.response.upstream_source = "cache" )
          => task[t].ret.response.answers # <<>>

----------------------------------------------------------------------------
(* Claims about cleanup_expired (SpecCache) *)

\* C31 (as claimed): cleanup_expired removes exactly the entries whose
\* expires_at <= now, leaves every unexpired entry unchanged, returns the
\* number of entries it removed, and increases expired by that same number.
C31_CleanupRemovesExpired ==
    [][ (cache_ret'.op = "cleanup_expired" /\ cache_ret' # cache_ret)
        => LET gone == DOMAIN cache \ DOMAIN cache' IN
           /\ gone = {k \in DOMAIN cache : cache[k].expires_at <= now}
           /\ \A k \in DOMAIN cache \ gone : cache'[k] = cache[k]
           /\ cache_ret'.ret = RetInt(Cardinality(gone))
           /\ cache_stats'.expired = cache_stats.expired + Cardinality(gone)
      ]_vars

----------------------------------------------------------------------------
(* Claims about get and eviction (SpecLru) *)

\* C29: every get call that returns normally increments exactly one of hits
\* and misses by exactly one: hits iff it returns a response, misses iff it
\* returns None (so hits + misses is the number of completed get calls); a
\* get that raises changes neither.
C29_GetCountsHitOrMiss ==
    [][ (cache_ret'.op = "get" /\ <<cache_stats, cache_ret>>' # <<cache_stats, cache_ret>>)
        => LET dh == cache_stats'.hits - cache_stats.hits
               dm == cache_stats'.misses - cache_stats.misses
           IN  /\ cache_ret'.ret.kind \in {"response", "None", "raise"}
               /\ cache_ret'.ret.kind = "response" => dh = 1 /\ dm = 0
               /\ cache_ret'.ret.kind = "None" => dh = 0 /\ dm = 1
               /\ cache_ret'.ret.kind = "raise" => dh = 0 /\ dm = 0
               /\ cache_stats'.sets = cache_stats.sets
      ]_vars

\* a get has just found an entry past its own TTL and returned None, after
\* an earlier get was a hit: every call so far was a get or a set
C29_Witness ==
    /\ cache_ret.op = "get"
    /\ cache_ret.ret = RetNone
    /\ cache_stats.expired >= 1
    /\ cache_stats.hits >= 1
    /\ cache_stats.hits + cache_stats.misses + cache_stats.sets = LruOps

\* when an entry was last set or hit by get
LastUsed(e) == Max(e.stored_at, e.last_accessed)

\* the cache holds max_size entries and none of them has expired
FullOfUnexpired ==
    /\ TtlLen(CacheVal, now) = MaxSize
    /\ \A k \in DOMAIN cache : TtlContains(CacheVal, k, now) /\ ~IsExpired(cache[k], now)

C39_EvictedCountsDisplaced ==
    [][ (cache_ret'.op = "set" /\ cache_stats'.sets = cache_stats.sets + 1)
        => LET k == cache_ret'.key IN
           IF TtlContains(CacheVal, k, now) \/ TtlLen(CacheVal, now) < MaxSize
           THEN cache_stats'.evicted = cache_stats.evicted
           ELSE cache_stats'.evicted = cache_stats.evicted + 1
      ]_vars

----------------------------------------------------------------------------
(* Claims about DNSCacheService under concurrent callers (SpecThreads) *)

\* the events of kind k that the threads of S have produced
RECURSIVE EventsMade(_, _, _)
EventsMade(cs, S, k) ==
    IF S = {} THEN 0
    ELSE LET t == CHOOSE x \in S : TRUE
         IN  cs[t].made[k] + EventsMade(cs, S \ {t}, k)

----------------------------------------------------------------------------
(* Claims about the order of the steps of resolve (SpecAdmission) *)

\* the positions that can follow a position inside resolve
NextPcs(p) ==
    CASE p = "idle"           -> {"count_query", "except"}
      [] p = "count_query"    -> {"try_cache"}
      [] p = "try_cache"      -> {"hit", "miss"}
      [] p = "hit"            -> {"idle"}
      [] p = "miss"           -> {"upstream"}
      [] p = "upstream"       -> {"attempt", "except"}
      [] p = "attempt"        -> {"inflight"}
      [] p = "inflight"       -> {"record"}
      [] p = "record"         -> {"backoff", "cache_write", "count_upstream", "except"}
      [] p = "backoff"        -> {"inflight"}
      [] p = "cache_write"    -> {"count_upstream"}
      [] p = "count_upstream" -> {"idle"}
      [] p = "except"         -> {"idle"}

\* C26: within one resolve call the steps occur in the order validation,
\* rate-limit admission, cache lookup, upstream call, cache write; a request
\* rejected by the rate limiter performs no cache lookup, no upstream call and
\* no cache write; a request that misses the cache writes to the cache only
\* after its upstream call has succeeded.
C26_StepsInOrder ==
    [][ \A t \in Tasks :
          task'[t] # task[t]
          => LET p1 == task[t].pc
                 p2 == task'[t].pc
             IN  /\ p2 \in NextPcs(p1)
                 /\ (p1 = "idle" /\ task'[t].outcome = Raised("ValueError"))
                    => rate_limiter' = rate_limiter
                 /\ (p1 = "idle" /\ task'[t].outcome = Raised("RateLimitExceededError"))
                    => p2 = "except"
                 /\ p1 = "except"
                    => UNCHANGED <<cacheVars, upstreamVars>>
                 /\ <<cache, lru, links, cache_stats>>' # <<cache, lru, links, cache_stats>>
                    => p1 \in {"try_cache", "cache_write"}
                 /\ cache_stats'.hits + cache_stats'.misses # cache_stats.hits + cache_stats.misses
                    => p1 = "try_cache"
                 /\ http_calls' # http_calls
                    => p1 \in {"attempt", "backoff"}
                 /\ cache_stats'.sets # cache_stats.sets
                    => p1 = "cache_write"
                 /\ p2 = "cache_write"
                    => /\ p1 = "record"
                       /\ task[t].outcome.kind = "response"
                       /\ upstream_stats'.successful_requests
                            = upstream_stats.successful_requests + 1
      ]_vars

\* a request was rejected by the rate limiter after the requests before it
\* had looked up the cache, called upstream and written the cache: the cache
\* has seen one lookup for each admitted request and none for the rejected one
C26_Witness ==
    /\ proxy_stats.rate_limit_errors = 1
    /\ proxy_stats.total_queries = RateLimitRequestsPerMinute
    /\ cache_stats.hits + cache_stats.misses = RateLimitRequestsPerMinute
    /\ cache_stats.sets >= 1
    /\ proxy_stats.upstream_queries >= 1
    /\ \E t \in Tasks :
          /\ task[t].pc = "idle"
          /\ task[t].ret = Raised("RateLimitExceededError")

----------------------------------------------------------------------------
(* Claims about what a refused call leaves alone (SpecFrame) *)

\* the call that thread t begins in this step is refused with error e
RefusedAtStart(t, e) ==
    /\ task[t].pc = "idle"
    /\ task'[t].pc = "except"
    /\ task'[t].outcome = Raised(e)

\* C38: a resolve call that fails validation consumes no rate-limit budget
\* for the client and performs no cache lookup, no upstream call and no cache
\* write; a request rejected by the rate limiter leaves the client's stored
\* count unchanged.
C38_RefusedCallsLeaveNoTrace ==
    [][ \A t \in Tasks :
          /\ RefusedAtStart(t, "ValueError")
             => UNCHANGED <<rate_limiter, cacheVars, upstreamVars>>
          /\ RefusedAtStart(t, "RateLimitExceededError")
             => /\ task'[t].client \in DOMAIN rate_limiter
                /\ rate_limiter'[task'[t].client].count = rate_limiter[task'[t].client].count
                /\ UNCHANGED <<cacheVars, upstreamVars>>
          /\ (task[t].pc = "except" /\ task'[t].pc = "idle"
              /\ task[t].outcome \in {Raised("ValueError"), Raised("RateLimitExceededError")})
             => UNCHANGED <<rate_limiter, cacheVars, upstreamVars>>
      ]_vars

\* a client whose count stands at the limit has had one request rejected by
\* the limiter and one refused by validation; no upstream request failed, and
\* the cache has seen lookups only for the admitted requests
C38_Witness ==
    /\ proxy_stats.rate_limit_errors = 1
    /\ proxy_stats.upstream_errors = 1
    /\ upstream_stats.failed_requests = 0
    /\ proxy_stats.total_queries = RateLimitRequestsPerMinute
    /\ cache_stats.hits + cache_stats.misses = RateLimitRequestsPerMinute
    /\ \E c \in DOMAIN rate_limiter : rate_limiter[c].count = RateLimitRequestsPerMinute
    /\ \A t \in Tasks : task[t].pc = "idle"

----------------------------------------------------------------------------
(* Claims about the counters of resolve (SpecSequential) *)

\* the error counter that matches the kind of a failure
KindCounter(e) ==
    IF e \in {"ValueError", "ValidationError"} THEN "validation_errors"
    ELSE IF e = "RateLimitExceededError" THEN "rate_limit_errors"
    ELSE IF e = "CircuitBreakerOpenError" THEN "circuit_breaker_errors"
    ELSE "upstream_errors"

ErrorCounters ==
    {"validation_errors", "rate_limit_errors", "circuit_breaker_errors", "upstream_errors"}

\* C27: every resolve call increments total_queries exactly once; a call that
\* returns successfully increments exactly one of cache_hits / cache_misses,
\* and upstream_queries exactly once iff the answer came from upstream; a call
\* that fails increments exactly one of the error counters, the one matching
\* its failure kind, and does not increment upstream_queries.  With calls
\* made one at a time: when a call returns, total_queries equals the number
\* of calls classified so far (answered from the cache, answered from
\* upstream, or failed), and a failing call has bumped the counter of its kind.
C27_CountersPerCall ==
    [][ \A t \in Tasks :
          (InResolve(t) /\ task'[t].pc = "idle")
          => /\ proxy_stats'.total_queries
                  = proxy_stats'.cache_hits + proxy_stats'.upstream_queries
                    + proxy_stats'.validation_errors + proxy_stats'.rate_limit_errors
                    + proxy_stats'.circuit_breaker_errors + proxy_stats'.upstream_errors
             /\ task[t].pc = "except"
                => /\ proxy_stats'[KindCounter(task[t].outcome.error)]
                        = proxy_stats[KindCounter(task[t].outcome.error)] + 1
                   /\ \A c \in ErrorCounters \ {KindCounter(task[t].outcome.error)} :
                        proxy_stats'[c] = proxy_stats[c]
                   /\ proxy_stats'.upstream_queries = proxy_stats.upstream_queries
      ]_vars

----------------------------------------------------------------------------
(* Claims about the replies on the wire (SpecServer) *)

\* the handler of thread t has finished a datagram that asked for name, and
\* resolve answered it from upstream
AnsweredFromUpstream(t, name) ==
    /\ server[t].pc = "done"
    /\ server[t].datagram.qname = name
    /\ task[t].ret.kind = "response"
    /\ task[t].ret.response.upstream_source = "upstream"

\* C17: when the upstream body has Status = 3 and an empty Answer list, the
\* reply sent to the client has rcode NXDOMAIN and nothing is stored in the
\* cache for that key.
C17_NxdomainReply ==
    \A t \in Tasks :
       AnsweredFromUpstream(t, "nx.com")
       => /\ \A i \in DOMAIN server[t].replies : server[t].replies[i].rcode = NXDOMAIN
          /\ CreateCacheKey("nx.com", "A") \notin DOMAIN cache

\* the handler of thread t has finished the query that is one more than the
\* per-minute budget of its client, within the minute of the first
OverBudgetQueryDone(t) ==
    /\ server[t].pc = "done"
    /\ server[t].datagram.parse = "ok"
    /\ server[t].datagram.address = Client
    /\ proxy_stats.total_queries + proxy_stats.rate_limit_errors
         = RateLimitRequestsPerMinute + 1
    /\ now < Secs(WindowSeconds)

\* C18: a request rejected by the rate limiter is answered with rcode REFUSED
\* (5): the query after the last one of the per-minute budget, from the same
\* client IP in the same wall-clock minute, gets only a REFUSED reply.
C18_OverBudgetRefused ==
    \A t \in Tasks :
       OverBudgetQueryDone(t)
       => \A i \in DOMAIN server[t].replies : server[t].replies[i].rcode = 5

\* C20: for every received datagram: if the packet cannot be parsed, no reply
\* is sent; if it parses but resolution fails, exactly one error reply is sent
\* to the originating address; if resolution succeeds, exactly one answer
\* reply is sent.  No datagram causes more than one reply.
C20_OneReplyPerDatagram ==
    \A t \in Tasks :
       server[t].pc = "done"
       => LET d == server[t].datagram
              r == server[t].replies
          IN  /\ Len(r) <= 1
              /\ d.parse = "DNSError" => r = << >>
              /\ (d.parse = "ok" /\ task[t].ret.kind = "raise")
                 => /\ Len(r) = 1
                    /\ r[1].rcode # NOERROR
                    /\ r[1].to = d.address
              /\ (d.parse = "ok" /\ task[t].ret.kind = "response")
                 => /\ Len(r) = 1
                    /\ r[1].rcode = NOERROR
                    /\ r[1].to = d.address

\* C21: on shutdown, request tasks already started are allowed to finish: a
\* request in flight when shutdown begins still sends its reply, and the
\* resolver is not torn down while a handler is still resolving.
C21_InFlightDrains ==
    \A t \in Tasks :
       /\ (server[t].pc = "done" /\ server[t].datagram.parse = "ok")
          => Len(server[t].replies) = 1
       /\ lifecycle = "down" => server[t].pc # "resolve"

----------------------------------------------------------------------------
(* Claims about _check_rate_limit (SpecLimiter) *)

\* datetime.second of the time t
SecondOfMinute(t) == (t \div TicksPerSecond) % WindowSeconds

----------------------------------------------------------------------------
(* Claims about the rate limiter under concurrent requests (SpecRace) *)

\* C33 (as claimed): the check-reset-increment sequence is atomic per client:
\* with several request tasks of the same client IP running concurrently in
\* the same wall-clock minute, at most rate_limit_requests_per_minute of them
\* pass admission and the client's stored count never exceeds the limit.
C33_LimiterAtomic ==
    /\ \A c \in DOMAIN rate_limiter : rate_limiter[c].count <= RateLimitRequestsPerMinute
    /\ now < Secs(WindowSeconds) => RacePasses <= RateLimitRequestsPerMinute

----------------------------------------------------------------------------
(* Claims about the recovery of the circuit breaker (FairRecovery) *)

\* C36: when from some time on every upstream attempt succeeds and queries
\* keep reaching UpstreamDoHService.query, a circuit that is OPEN or
\* HALF_OPEN is eventually CLOSED with consecutive_failures = 0.
C36_CircuitRecovers ==
    (upstream_service.circuit_breaker_state \in {"OPEN", "HALF_OPEN"})
        ~> (/\ upstream_service.circuit_breaker_state = "CLOSED"
            /\ upstream_service.consecutive_failures = 0)

\* after the upstream has stopped failing, a success recorded on a
\* HALF_OPEN circuit that had reached the failure threshold closes it
C36_Witness ==
    /\ now >= FailuresEnd
    /\ event.op = "record_success"
    /\ event.before.circuit_breaker_state = "HALF_OPEN"
    /\ event.before.consecutive_failures >= FailureThreshold
    /\ upstream_service = ClosedCircuit

----------------------------------------------------------------------------
(* Claims about concurrent resolve calls for one key (SpecProxy) *)

\* the entry that DNSCacheService.set makes of response r at time t
EntryOf(r, t) == CacheEntryCreate(r.query_name, r.query_type, r.answers, r.ttl, t)

\* thread t runs DNSCacheService.set in this step
CacheWriteStep(t) == task[t].pc = "cache_write" /\ task'[t].pc = "count_upstream"

\* both threads have returned from a resolve call that missed the cache,
\* got an answer from upstream and stored it, and no other call was admitted
BothMissedAndReturned ==
    /\ \A t \in Tasks : /\ task[t].pc = "idle"
                        /\ task[t].ret.kind = "response"
                        /\ task[t].ret.response.upstream_source = "upstream"
                        /\ task[t].ret.response.ttl > 0
    /\ \A t, u \in Tasks : task[t].q = task[u].q
    /\ proxy_stats.total_queries = Cardinality(Tasks)
    /\ proxy_stats.cache_misses = Cardinality(Tasks)
    /\ proxy_stats.upstream_queries = Cardinality(Tasks)
    /\ cache_stats.sets = Cardinality(Tasks)

\* C32: concurrent resolve calls for one (name, type) may all miss and all
\* query upstream.  Each set leaves under the key exactly the entry made of
\* the response of the thread that ran it, with hit_count 0; the entries are
\* changed by cache reads and writes only; so when all calls have returned
\* the cache holds one entry for the key, which is wholly the entry of one
\* of the returned responses (the one whose set ran last).
C32_LastSetWins ==
    [][ /\ \A t \in Tasks :
             CacheWriteStep(t) =>
                LET r == task[t].outcome.response
                    k == CreateCacheKey(r.query_name, r.query_type)
                IN  /\ k \in DOMAIN cache'
                    /\ cache'[k] = EntryOf(r, now)
                    /\ cache'[k].hit_count = 0
        /\ cache' # cache =>
             \E t \in Tasks : /\ task[t].pc \in {"try_cache", "cache_write"}
                              /\ task'[t] # task[t]
        /\ BothMissedAndReturned' =>
             LET k == CreateCacheKey(task'[MainThread].q[1], task'[MainThread].q[2]) IN
             /\ DOMAIN cache' = {k}
             /\ cache'[k].hit_count = 0
             /\ \E t \in Tasks : \E at \in 0..now' :
                   cache'[k] = EntryOf(task'[t].ret.response, at)
      ]_vars

\* both calls missed, got different answers and have returned; the entry is
\* the one made of the answer with the longer TTL, stored after the other
C32_Witness ==
    /\ BothMissedAndReturned
    /\ \E t, u \in Tasks :
          /\ task[t].ret.response.ttl < task[u].ret.response.ttl
          /\ \E k \in DOMAIN cache :
                /\ cache[k].expires_at - cache[k].stored_at = Secs(task[u].ret.response.ttl)
                /\ cache_stats.evicted >= 1

----------------------------------------------------------------------------
(* Claims about the service locks (SpecLocks) *)

\* t is inside urlopen / response.read(), or inside time.sleep(backoff_time)
Blocking(t) == task[t].pc \in {"inflight", "backoff"}

\* C34: no thread is inside an upstream HTTP request or a backoff sleep while
\* it holds the cache lock or the upstream-state lock, and every step that
\* changes a circuit-breaker field (state, consecutive_failures, open time)
\* is taken by a thread that holds the upstream-state lock.
C34_LocksAroundUpstream ==
    [][ /\ \A t \in Tasks :
             Blocking(t)' => /\ ~Holds(held', t, "cache")
                             /\ ~Holds(held', t, "upstream")
        /\ upstream_service' # upstream_service
             => \E t \in Tasks : /\ Holds(held, t, "upstream")
                                 /\ task'[t] # task[t]
                                 /\ \A u \in Tasks \ {t} : ~Holds(held, u, "upstream")
      ]_vars

\* a thread is inside an HTTP request while the other holds the
\* upstream-state lock, about to record a failure on a circuit that failures
\* have already opened
C34_Witness ==
    \E t, u \in Tasks :
        /\ t # u
        /\ task[t].pc = "inflight"
        /\ task[u].pc = "record_failure"
        /\ Holds(held, u, "upstream")
        /\ upstream_service.circuit_breaker_state = "OPEN"

\* the order in which the locks are nested
LockOrder == {<<"proxy", "cache">>, <<"proxy", "upstream">>}

\* t stands at a `with` statement whose lock u holds
WaitsFor(t, u) ==
    /\ t # u
    /\ IsBlock(task[t].pc)
    /\ BlockAt(task[t].pc).kind # "exit"
    /\ ~Inside(t)
    /\ Holds(held, u, BlockAt(task[t].pc).lock)

\* C37: a thread that holds one service lock and takes another always holds
\* the statistics lock and takes the cache lock or the upstream-state lock,
\* and no set of threads running resolve, get_stats, reset_stats,
\* reset_circuit_breaker and shutdown is ever deadlocked (each waiting for a
\* lock that another of the set holds).
C37_NoDeadlock ==
    /\ \A t \in Tasks : \A i, j \in 1..Len(held[t]) :
          i < j => <<held[t][i], held[t][j]>> \in LockOrder
    /\ \A S \in SUBSET Tasks :
          S # {} => \E t \in S : \A u \in S : ~WaitsFor(t, u)

\* a thread inside get_stats holds the statistics lock and waits for the
\* cache lock, which a thread inside resolve holds
C37_Witness ==
    \E t, u \in Tasks :
        /\ task[t].pc = "cache_get_stats"
        /\ held[t] = <<"proxy">>
        /\ WaitsFor(t, u)
        /\ task[u].caller = "resolve"
        /\ held[u] = <<"cache">>

----------------------------------------------------------------------------
(* Claims about _extract_ttl (SpecParse) *)

\* the TTLs of the answer entries that carry a non-negative integer TTL
UsableTtls(answers) ==
    { answers[i].TTL : i \in {j \in DOMAIN answers : answers[j].TTL # NoTtl /\ answers[j].TTL >= 0} }

ParsedResponses ==
    { task[t].ret.response : t \in {u \in Tasks : /\ task[u].caller = "_parse_response"
                                                  /\ task[u].ret.kind = "response"} }

\* C35: the effective ttl of an upstream response equals the minimum TTL over
\* all answer entries that carry a non-negative integer TTL, and equals 300
\* when the Answer list is empty or no entry carries a usable TTL.
C35_TtlIsMinimum ==
    \A r \in ParsedResponses :
        LET usable == UsableTtls(r.answers) IN
        IF usable = {}
        THEN r.ttl = 300
        ELSE /\ r.ttl \in usable
             /\ \A x \in usable : r.ttl <= x

\* a response whose first answer has a larger TTL than a later one, with an
\* entry without usable TTL among them: the ttl is the smaller one
C35_Witness ==
    \E r \in ParsedResponses :
        /\ Len(r.answers) = MaxAnswers
        /\ r.answers[1].TTL > r.ttl
        /\ r.ttl >= 0
        /\ \E i \in DOMAIN r.answers : r.answers[i].TTL < 0
        /\ \E i \in DOMAIN r.answers : r.answers[i].TTL = r.ttl

============================================================================
